---- MODULE Spec2Model ----
(***************************************************************************)
(* State-machine model of the chat-ingestion pipeline of the chatbot       *)
(* backend: app/routes/chat.py (send_message, upload_image) together with  *)
(* the adapters it drives, app/services/gemini_service.py and              *)
(* app/services/speech_service.py.                                         *)
(*                                                                         *)
(* One request is one slot r \in Reqs.  A request advances from await to   *)
(* await: the code between two awaits of a coroutine runs without          *)
(* interleaving, so each action below is one such segment.  The outcome of *)
(* every outbound call (speech-to-text, one generation attempt,            *)
(* text-to-speech, a database commit, a file removal) is chosen            *)
(* nondeterministically from the outcomes the code distinguishes.          *)
(***************************************************************************)
EXTENDS Integers, Sequences, FiniteSets, TLC

\* ---------------------------------------------------------------- bounds
NumReqs == 2
NumUsers == 1

Reqs == 1..NumReqs
Users == 1..NumUsers

\* The authenticated caller of request r (Depends(get_current_user)).
current_user(r) == ((r - 1) % NumUsers) + 1

\* ------------------------------------------------------ program constants
MAX_RETRIES == 2
RETRY_DELAY == 1
MAX_MESSAGE_LENGTH == 5000
MAX_UPLOAD_SIZE == 10 * 1024 * 1024
ALLOWED_IMAGE_TYPES == {"image/jpeg", "image/jpg", "image/png", "image/gif", "image/webp"}
ALLOWED_AUDIO_TYPES == {"audio/mpeg", "audio/wav"}
RECENT_LIMIT == 20
DEFAULT_LIMIT == 50
MAX_LIMIT == 100

\* ------------------------------------------------------------ value sets
\* A text is abstracted to the lengths of its three parts: leading
\* whitespace, the core (which neither starts nor ends with whitespace) and
\* trailing whitespace.  len() and strip() are computed on that.
Text(lead, core, trail) == [lead |-> lead, core |-> core, trail |-> trail]
NoText == Text(0, 0, 0)
len(m) == m.lead + m.core + m.trail
strip(m) == IF m.core = 0 THEN NoText ELSE Text(0, m.core, 0)

\* The `message` form field as a client may send it (None and "" coincide:
\* both are falsy and both strip to the empty text): empty, whitespace
\* only, exactly at the limit, one over the limit with and without
\* surrounding whitespace.
InMessages ==
    { NoText, Text(1, 0, 0),
      Text(1, MAX_MESSAGE_LENGTH - 2, 1), Text(2, MAX_MESSAGE_LENGTH - 2, 1),
      Text(0, MAX_MESSAGE_LENGTH + 1, 0) }

\* transcript.text as the provider may return it, before .strip()
RawTranscripts ==
    { Text(1, 0, 0), Text(1, MAX_MESSAGE_LENGTH - 3, 0), Text(0, MAX_MESSAGE_LENGTH + 1, 0) }

\* An uploaded part: absent, or a content type and a size in bytes.
ContentTypes == {"audio/mpeg", "image/png", "application/zip"}
Sizes == {MAX_UPLOAD_SIZE, MAX_UPLOAD_SIZE + 1}
NoUpload == [present |-> FALSE, content_type |-> "", size |-> 0]
Uploads == [present : {TRUE}, content_type : ContentTypes, size : Sizes]

\* File names under UPLOAD_DIR: f"{uuid.uuid4()}.{ext}", unique per request.
NoFile == <<>>
VoicePath(r) == <<"voice", r>>
ImagePath(r) == <<"image", r>>
AudioPath(r) == <<"audio", r>>

NoResponse == "None"
ResponseText == "text"

\* Outcomes of one provider call, as the code distinguishes them.
SttOutcomes == {"ok", "unavailable", "error", "timeout", "other_error"}
GenOutcomes == {"ok", "empty", "timeout", "net_error", "other_error"}
TtsOutcomes == {"ok", "unavailable", "error", "timeout"}

\* chat_history: the rows of the chat_history table.
\* uploads:      the files that exist under UPLOAD_DIR.
\* req:          per request, the handler's position and local variables.
\* call:         one generate call followed attempt by attempt (GenSpec).
\* input:        per request, what the client and the speech provider sent,
\*               recorded where a specification observes it (InSpec).
\* resp:         the body of the last response observed (InSpec, HistSpec).
\* users:        the rows of the users table.
\* reset_tokens: the rows of the password_reset_tokens table.
\* now:          the clock (datetime.now(timezone.utc)), in minutes.
\* work:         the local variables of a handler that runs in a second
\*               server process, between its database statements.
\* issued:       how many user ids (uuid4) and how many reset tokens
\*               (secrets.token_urlsafe) have been generated; none repeats.
\* sync:         one call of generate_image_response: its retry loop and the
\*               worker threads that run _generate_image_content_sync.
VARIABLES chat_history, uploads, req, call, input, resp,
          users, reset_tokens, now, work, issued, sync

vars == <<chat_history, uploads, req, call, input, resp,
          users, reset_tokens, now, work, issued, sync>>

\* What the chat pipeline and the history routes leave alone.
side_vars == <<users, reset_tokens, now, work, issued, sync>>

\* ------------------------------------------------------- pure functions

\* (variant: a message of whitespace only passes)
validate_and_process_message_AcceptsBlank(message) ==
    IF len(message) = 0
    THEN [ok |-> FALSE, status_code |-> 400, text |-> NoText]
    ELSE IF len(message) > MAX_MESSAGE_LENGTH
    THEN [ok |-> FALSE, status_code |-> 400, text |-> NoText]
    ELSE [ok |-> TRUE, status_code |-> 200, text |-> strip(message)]

\* GeminiService.validate_and_process_message
validate_and_process_message(message) ==
    IF len(message) = 0 \/ len(strip(message)) = 0
    THEN [ok |-> FALSE, status_code |-> 400, text |-> NoText]
    ELSE IF len(message) > MAX_MESSAGE_LENGTH
    THEN [ok |-> FALSE, status_code |-> 400, text |-> NoText]
    ELSE [ok |-> TRUE, status_code |-> 200, text |-> strip(message)]

\* (variant: the 400 of an empty transcript is wrapped like any other error)
convert_voice_to_text_WrapsEmpty(outcome, raw) ==
    CASE outcome = "unavailable" -> [ok |-> FALSE, status_code |-> 500, text |-> NoText]
      [] outcome = "timeout"     -> [ok |-> FALSE, status_code |-> 504, text |-> NoText]
      [] outcome = "error"       -> [ok |-> FALSE, status_code |-> 500, text |-> NoText]
      [] outcome = "other_error" -> [ok |-> FALSE, status_code |-> 500, text |-> NoText]
      [] OTHER ->
            IF len(strip(raw)) = 0
            THEN [ok |-> FALSE, status_code |-> 500, text |-> NoText]
            ELSE [ok |-> TRUE, status_code |-> 200, text |-> strip(raw)]

\* SpeechService._transcribe_sync + convert_voice_to_text: the result of one
\* transcription call, given the provider outcome and the raw transcript.
convert_voice_to_text(outcome, raw) ==
    CASE outcome = "unavailable" -> [ok |-> FALSE, status_code |-> 500, text |-> NoText]
      [] outcome = "timeout"     -> [ok |-> FALSE, status_code |-> 504, text |-> NoText]
      [] outcome = "error"       -> [ok |-> FALSE, status_code |-> 500, text |-> NoText]
      [] outcome = "other_error" -> [ok |-> FALSE, status_code |-> 500, text |-> NoText]
      [] OTHER ->
            IF len(strip(raw)) = 0
            THEN [ok |-> FALSE, status_code |-> 400, text |-> NoText]
            ELSE [ok |-> TRUE, status_code |-> 200, text |-> strip(raw)]

\* SpeechService.convert_text_to_speech: whether the call returns, and
\* whether output_path exists afterwards (gTTS.save opens the file before it
\* fetches the audio, and a timed-out worker thread keeps running, so a
\* failed call may leave the file behind).
convert_text_to_speech(outcome, leaves) ==
    CASE outcome = "ok"          -> [ok |-> TRUE,  status_code |-> 200, file |-> TRUE]
      [] outcome = "unavailable" -> [ok |-> FALSE, status_code |-> 500, file |-> FALSE]
      [] outcome = "timeout"     -> [ok |-> FALSE, status_code |-> 504, file |-> leaves]
      [] OTHER                   -> [ok |-> FALSE, status_code |-> 500, file |-> leaves]

\* (variant: every untyped error counts as a network error)
is_network_error_Always(outcome) == TRUE

\* The keyword test of the generic except branch: an untyped error whose
\* text contains one of the network keywords.
is_network_error(outcome) == outcome = "net_error"

\* The statements after the retry loop of generate_*_response.
AfterLoop(last_error) ==
    IF last_error # "None"
    THEN IF last_error = "HTTPException"
         THEN [act |-> "raise", status_code |-> 504, last_error |-> last_error, sleep |-> 0]
         ELSE [act |-> "raise", status_code |-> 503, last_error |-> last_error, sleep |-> 0]
    ELSE [act |-> "return_none", status_code |-> 200, last_error |-> last_error, sleep |-> 0]

\* (variant: an HTTPException of the provider call is retried like a timeout)
GenerateAttempt_RetriesTyped(attempt, last_error, outcome) ==
    CASE outcome = "ok" ->
            [act |-> "return", status_code |-> 200, last_error |-> last_error, sleep |-> 0]
      [] outcome \in {"timeout", "empty", "not_found"} ->
            IF attempt < MAX_RETRIES
            THEN [act |-> "continue", status_code |-> 0, last_error |-> "HTTPException",
                  sleep |-> RETRY_DELAY * (attempt + 1)]
            ELSE [act |-> "raise", status_code |-> 504, last_error |-> "HTTPException", sleep |-> 0]
      [] OTHER ->
            IF is_network_error(outcome) /\ attempt < MAX_RETRIES
            THEN [act |-> "continue", status_code |-> 0, last_error |-> "Exception",
                  sleep |-> RETRY_DELAY * (attempt + 1)]
            ELSE [act |-> "raise", status_code |-> 500, last_error |-> last_error, sleep |-> 0]

\* (variant: an empty response text is returned like any other)
GenerateAttempt_ReturnsEmpty(attempt, last_error, outcome) ==
    CASE outcome \in {"ok", "empty"} ->
            [act |-> "return", status_code |-> 200, last_error |-> last_error, sleep |-> 0]
      [] outcome = "timeout" ->
            IF attempt < MAX_RETRIES
            THEN [act |-> "continue", status_code |-> 0, last_error |-> "HTTPException",
                  sleep |-> RETRY_DELAY * (attempt + 1)]
            ELSE [act |-> "raise", status_code |-> 504, last_error |-> "HTTPException", sleep |-> 0]
      [] outcome = "not_found" ->
            [act |-> "raise", status_code |-> 404, last_error |-> last_error, sleep |-> 0]
      [] OTHER ->
            IF is_network_error(outcome) /\ attempt < MAX_RETRIES
            THEN [act |-> "continue", status_code |-> 0, last_error |-> "Exception",
                  sleep |-> RETRY_DELAY * (attempt + 1)]
            ELSE [act |-> "raise", status_code |-> 500, last_error |-> last_error, sleep |-> 0]

\* (variant: every backoff sleep lasts RETRY_DELAY)
GenerateAttempt_FixedDelay(attempt, last_error, outcome) ==
    CASE outcome = "ok" ->
            [act |-> "return", status_code |-> 200, last_error |-> last_error, sleep |-> 0]
      [] outcome = "timeout" ->
            IF attempt < MAX_RETRIES
            THEN [act |-> "continue", status_code |-> 0, last_error |-> "HTTPException",
                  sleep |-> RETRY_DELAY]
            ELSE [act |-> "raise", status_code |-> 504, last_error |-> "HTTPException", sleep |-> 0]
      [] outcome = "empty" ->
            [act |-> "raise", status_code |-> 500, last_error |-> last_error, sleep |-> 0]
      [] outcome = "not_found" ->
            [act |-> "raise", status_code |-> 404, last_error |-> last_error, sleep |-> 0]
      [] OTHER ->
            IF is_network_error(outcome) /\ attempt < MAX_RETRIES
            THEN [act |-> "continue", status_code |-> 0, last_error |-> "Exception",
                  sleep |-> RETRY_DELAY]
            ELSE [act |-> "raise", status_code |-> 500, last_error |-> last_error, sleep |-> 0]

\* One iteration of the retry loop of generate_text_response /
\* generate_image_response: what the iteration does for a provider outcome.
GenerateAttempt(attempt, last_error, outcome) ==
    CASE outcome = "ok" ->
            [act |-> "return", status_code |-> 200, last_error |-> last_error, sleep |-> 0]
      [] outcome = "timeout" ->
            IF attempt < MAX_RETRIES
            THEN [act |-> "continue", status_code |-> 0, last_error |-> "HTTPException",
                  sleep |-> RETRY_DELAY * (attempt + 1)]
            ELSE [act |-> "raise", status_code |-> 504, last_error |-> "HTTPException", sleep |-> 0]
      [] outcome = "empty" ->
            [act |-> "raise", status_code |-> 500, last_error |-> last_error, sleep |-> 0]
      [] outcome = "not_found" ->
            [act |-> "raise", status_code |-> 404, last_error |-> last_error, sleep |-> 0]
      [] OTHER ->
            IF is_network_error(outcome) /\ attempt < MAX_RETRIES
            THEN [act |-> "continue", status_code |-> 0, last_error |-> "Exception",
                  sleep |-> RETRY_DELAY * (attempt + 1)]
            ELSE [act |-> "raise", status_code |-> 500, last_error |-> last_error, sleep |-> 0]

\* `continue` at the end of an iteration: the next value of range(MAX_RETRIES + 1),
\* or the statements after the loop when the range is used up.
LoopContinue(attempt, step) ==
    IF attempt + 1 < MAX_RETRIES + 1 THEN step ELSE AfterLoop(step.last_error)

\* (variant: a failed iteration returns instead of raising)
LoopStep_ReturnsOnError(attempt, last_error, outcome) ==
    LET step == GenerateAttempt(attempt, last_error, outcome)
    IN  IF step.act = "continue" THEN LoopContinue(attempt, step)
        ELSE [step EXCEPT !.act = "return"]

\* One iteration, with the loop exit: act is "return", "raise", "continue"
\* (a further iteration follows) or "return_none".
LoopStep(attempt, last_error, outcome) ==
    LET step == GenerateAttempt(attempt, last_error, outcome)
    IN  IF step.act = "continue" THEN LoopContinue(attempt, step) ELSE step

\* _generate_image_content_sync raises a 404 HTTPException when the image
\* file does not exist; otherwise the provider decides the outcome.
ImageOutcome(files, path, outcome) ==
    IF path \notin files THEN "not_found" ELSE outcome

\* (variant: the file is never removed)
RemoveFile_Keeps(files, path, rm_ok) == files

\* os.path.exists(path) and os.remove(path) in a try block that swallows the
\* removal error: the directory afterwards.
RemoveFile(files, path, rm_ok) ==
    IF path \in files /\ rm_ok THEN files \ {path} ELSE files

RemoveResult(files, path, rm_ok) ==
    IF path \notin files THEN "absent" ELSE IF rm_ok THEN "removed" ELSE "failed"

\* ------------------------------------------------------------------ state

\* A request before it arrives.  stage, stt, gen, tts, rm and written record
\* what the request did (where it ended, the outcome of its last
\* transcription, generation attempt and synthesis, of its file removal, and
\* the rows it inserted); the handlers never read them.
InitReq ==
    [ pc |-> "idle", route |-> "none",
      message_text |-> NoText, voice_file_path |-> NoFile, voice_url |-> NoFile,
      file_path |-> NoFile, ai_response |-> NoResponse, response_audio_url |-> NoFile,
      attempt |-> 0, last_error |-> "None", status_code |-> 0,
      stage |-> "none", stt |-> "none", gen |-> "none", tts |-> "none", rm |-> "none",
      written |-> 0 ]

\* Nothing observed.
NoInput == [message |-> NoText, upload |-> NoUpload, outcome |-> "none", raw |-> NoText]
NoResp == [op |-> "none"]

NoCall == [pc |-> "off", outcomes |-> <<>>, attempt |-> 0, last_error |-> "None",
           status_code |-> 0, result |-> NoResponse, made |-> 0, slept |-> <<>>]

\* An email address: a name, and whether it is written with upper-case
\* letters or surrounding blanks.  The request schemas lower-case and strip
\* it before the services see it (normalize_email).
Email(name, raw) == [name |-> name, raw |-> raw]
normalize_email(v) == Email(v.name, FALSE)

\* A password: a key that tells passwords apart, its length, and whether it
\* has an upper-case letter, a lower-case letter and a digit.
Password(key, length, upper, lower, digit) ==
    [key |-> key, len |-> length, upper |-> upper, lower |-> lower, digit |-> digit]

\* pwd_context.hash / pwd_context.verify: a hash verifies the password it
\* was made from and no other.
get_password_hash(password) == <<"bcrypt", password>>
verify_password(plain_password, hashed_password) ==
    hashed_password = get_password_hash(plain_password)

\* The password the account of user u was registered with.
FirstPassword(u) == Password(u, 8, TRUE, TRUE, TRUE)

\* A row of the users table.
UserRow(id, email, username, hashed_password) ==
    [id |-> id, email |-> email, username |-> username, hashed_password |-> hashed_password]

\* A username: a name, its length, and whether it consists of letters,
\* digits and underscores only.
Username(name, length, word) == [name |-> name, len |-> length, word |-> word]
Handle(u) == Username(u, 3, TRUE)

\* The account of user u as registered: email and username named after u.
Account(u) == UserRow(u, Email(u, FALSE), Handle(u), get_password_hash(FirstPassword(u)))

\* The accounts of the users who own chat rows.
Registered == {Account(u) : u \in 1..(NumUsers + 1)}

NoWork == [pc |-> "idle"]
NoSync == [pc |-> "off"]

\* The accounts exist, no reset token is issued, no second process is at work.
Quiet ==
    /\ users = Registered
    /\ reset_tokens = {}
    /\ now = 0
    /\ work = NoWork
    /\ issued = [users |-> NumUsers + 1, tokens |-> 0]
    /\ sync = NoSync

Init ==
    /\ chat_history = {}
    /\ uploads = {}
    /\ req = [r \in Reqs |-> InitReq]
    /\ call = NoCall
    /\ input = [r \in Reqs |-> NoInput]
    /\ resp = NoResp
    /\ Quiet

\* The request ends with an error response.
Fail(q, code, stage) ==
    [q EXCEPT !.pc = "done", !.status_code = code, !.stage = stage,
              !.attempt = 0, !.last_error = "None"]

\* (variant: the row's type is derived from the media references)
ChatEntry_WrongType(r, q) ==
    [ id |-> <<r, q.written + 1>>,
      user_id |-> current_user(r),
      message |-> q.message_text,
      response |-> q.ai_response,
      message_type |-> IF q.response_audio_url # NoFile THEN "voice" ELSE "image",
      image_url |-> IF q.route = "image" THEN q.file_path ELSE NoFile,
      voice_url |-> q.voice_url,
      response_audio_url |-> q.response_audio_url ]

\* (variant: a voice submission is stored as a text turn)
ChatEntry_VoiceAsText(r, q) ==
    [ id |-> <<r, q.written + 1>>,
      user_id |-> current_user(r),
      message |-> q.message_text,
      response |-> q.ai_response,
      message_type |-> IF q.route = "image" THEN "image" ELSE "text",
      image_url |-> IF q.route = "image" THEN q.file_path ELSE NoFile,
      voice_url |-> q.voice_url,
      response_audio_url |-> q.response_audio_url ]

\* The ChatHistory row send_message / upload_image builds.
ChatEntry(r, q) ==
    [ id |-> <<r, q.written + 1>>,
      user_id |-> current_user(r),
      message |-> q.message_text,
      response |-> q.ai_response,
      message_type |-> CASE q.route = "voice" -> "voice"
                         [] q.route = "image" -> "image"
                         [] OTHER -> "text",
      image_url |-> IF q.route = "image" THEN q.file_path ELSE NoFile,
      voice_url |-> q.voice_url,
      response_audio_url |-> q.response_audio_url ]

\* (variant: no upload is too large)
TooLarge_Never(size) == FALSE

\* len(contents) > settings.MAX_UPLOAD_SIZE
TooLarge(size) == size > MAX_UPLOAD_SIZE

\* (variant: a request that carries text is a text request)
MessageKind_PrefersText(message, voice) ==
    IF len(message) > 0 THEN "text" ELSE IF voice.present THEN "voice" ELSE "text"

\* MessageType.VOICE if voice else MessageType.TEXT: the message field plays
\* no part when a voice part is present.
MessageKind(message, voice) == IF voice.present THEN "voice" ELSE "text"

\* ---------------------------------------------------------------- actions

\* POST /message up to its first provider call: classification, the checks
\* of the voice part, the write of the audio file, or the text validation.
SendMessageWith(r, message, voice) ==
    /\ req[r].pc = "idle"
    /\ LET q == [req[r] EXCEPT !.route = MessageKind(message, voice)]
            v == validate_and_process_message(message)
        IN  IF voice.present
            THEN IF voice.content_type \notin ALLOWED_AUDIO_TYPES
                 THEN /\ req' = [req EXCEPT ![r] = Fail(q, 400, "upload")]
                      /\ UNCHANGED uploads
                 ELSE IF TooLarge(voice.size)
                 THEN /\ req' = [req EXCEPT ![r] = Fail(q, 400, "upload")]
                      /\ UNCHANGED uploads
                 ELSE /\ uploads' = uploads \cup {VoicePath(r)}
                      /\ req' = [req EXCEPT ![r] =
                                   [q EXCEPT !.pc = "stt", !.voice_file_path = VoicePath(r)]]
            ELSE /\ UNCHANGED uploads
                 /\ IF len(message) > 0
                    THEN IF v.ok
                         THEN req' = [req EXCEPT ![r] =
                                        [q EXCEPT !.pc = "generate", !.message_text = v.text]]
                         ELSE req' = [req EXCEPT ![r] = Fail(q, v.status_code, "validation")]
                    ELSE req' = [req EXCEPT ![r] = Fail(q, 400, "no_input")]
    /\ UNCHANGED <<chat_history, call, resp>>
    /\ UNCHANGED side_vars

SendMessage(r) ==
    \E message \in InMessages, voice \in Uploads \cup {NoUpload} :
        SendMessageWith(r, message, voice) /\ UNCHANGED input

\* send_message, the await of speech_service.convert_voice_to_text and what
\* follows it up to the next await: on success the transcript is validated,
\* on any exception the stored audio file is removed (removal errors are
\* swallowed) and the error is re-raised as a 500.
SpeechToTextWith(r, outcome, raw) ==
    /\ req[r].pc = "stt"
    /\ \E rm_ok \in BOOLEAN :
        LET q0 == req[r]
            t == convert_voice_to_text(outcome, raw)
            q == [q0 EXCEPT !.stt = IF t.ok THEN "ok" ELSE "failed"]
            v == validate_and_process_message(t.text)
        IN  IF t.ok
            THEN /\ UNCHANGED uploads
                 /\ IF v.ok
                    THEN req' = [req EXCEPT ![r] =
                                   [q EXCEPT !.pc = "generate", !.message_text = v.text,
                                             !.voice_url = q0.voice_file_path]]
                    ELSE req' = [req EXCEPT ![r] =
                                   Fail([q EXCEPT !.voice_url = q0.voice_file_path],
                                        v.status_code, "validation")]
            ELSE /\ uploads' = RemoveFile(uploads, q0.voice_file_path, rm_ok)
                 /\ req' = [req EXCEPT ![r] =
                              Fail([q EXCEPT !.rm = RemoveResult(uploads, q0.voice_file_path, rm_ok)],
                                   500, "stt")]
    /\ UNCHANGED <<chat_history, call, resp>>
    /\ UNCHANGED side_vars

SpeechToText(r) ==
    \E outcome \in SttOutcomes, raw \in RawTranscripts :
        SpeechToTextWith(r, outcome, raw) /\ UNCHANGED input

\* (variant: the stored media of either route is removed on an error)
CleanupOnError_AnyRoute(q, files, rm_ok) ==
    RemoveFile(files, IF q.route = "image" THEN q.file_path ELSE q.voice_file_path, rm_ok)

\* (variant: no route removes anything on an error)
CleanupOnError_Skips(q, files, rm_ok) == files

\* The except block of upload_image (remove the stored image, swallow a
\* removal error, re-raise); send_message has no handler around its
\* generation and persistence steps, so there nothing is removed.
CleanupOnError(q, files, rm_ok) ==
    IF q.route = "image" THEN RemoveFile(files, q.file_path, rm_ok) ELSE files

FailWithCleanup(q, files, rm_ok, code, stage) ==
    Fail([q EXCEPT !.rm = IF q.route = "image"
                          THEN RemoveResult(files, q.file_path, rm_ok) ELSE @],
         code, stage)

\* One iteration of the retry loop of gemini_service.generate_text_response
\* (routes text and voice) or generate_image_response (route image): the
\* provider attempt, its except branches with the backoff sleep, and on a
\* raise the handling by the route.
Generate(r) ==
    /\ req[r].pc = "generate"
    /\ \E outcome \in GenOutcomes, rm_ok \in BOOLEAN :
        LET q0 == req[r]
            o == IF q0.route = "image"
                 THEN ImageOutcome(uploads, q0.file_path, outcome) ELSE outcome
            step == LoopStep(q0.attempt, q0.last_error, o)
            q == [q0 EXCEPT !.gen = o]
            returned(response) ==
                [q EXCEPT !.ai_response = response, !.attempt = 0, !.last_error = "None",
                          !.pc = IF q0.route = "voice" THEN "tts" ELSE "persist"]
        IN  CASE step.act = "return" ->
                    /\ req' = [req EXCEPT ![r] = returned(ResponseText)]
                    /\ UNCHANGED uploads
              [] step.act = "return_none" ->
                    /\ req' = [req EXCEPT ![r] = returned(NoResponse)]
                    /\ UNCHANGED uploads
              [] step.act = "continue" ->
                    /\ req' = [req EXCEPT ![r] =
                                 [q EXCEPT !.attempt = @ + 1, !.last_error = step.last_error]]
                    /\ UNCHANGED uploads
              [] OTHER ->
                    /\ uploads' = CleanupOnError(q, uploads, rm_ok)
                    /\ req' = [req EXCEPT ![r] =
                                 FailWithCleanup(q, uploads, rm_ok, step.status_code, "generate")]
    /\ UNCHANGED <<chat_history, call, input, resp>>
    /\ UNCHANGED side_vars

\* (variant: a failed synthesis fails the request)
AfterTts_Propagates(q, t, path) ==
    IF t.ok
    THEN [q EXCEPT !.tts = "ok", !.response_audio_url = path, !.pc = "persist"]
    ELSE Fail([q EXCEPT !.tts = "failed"], t.status_code, "tts")

\* send_message, the TTS block: the request after it.  Any exception of
\* convert_text_to_speech is logged and response_audio_url stays None.
AfterTts(q, t, path) ==
    [q EXCEPT !.tts = IF t.ok THEN "ok" ELSE "failed",
              !.response_audio_url = IF t.ok THEN path ELSE NoFile,
              !.pc = "persist"]

TextToSpeech(r) ==
    /\ req[r].pc = "tts"
    /\ \E outcome \in TtsOutcomes, leaves \in BOOLEAN :
        LET t == convert_text_to_speech(outcome, leaves)
        IN  /\ uploads' = IF t.file THEN uploads \cup {AudioPath(r)} ELSE uploads
            /\ req' = [req EXCEPT ![r] = AfterTts(@, t, AudioPath(r))]
    /\ UNCHANGED <<chat_history, call, input, resp>>
    /\ UNCHANGED side_vars

\* created_at = server_default func.now(): the database clock at the insert,
\* which has advanced past every timestamp already stored.
Now(rows) ==
    IF rows = {} THEN 1
    ELSE 1 + (CHOOSE c \in {t.created_at : t \in rows} :
                 \A t \in rows : t.created_at <= c)

\* The row as the table stores it: the entry with its created_at.
Stored(entry, created_at) ==
    [ id |-> entry.id, user_id |-> entry.user_id, message |-> entry.message,
      response |-> entry.response, message_type |-> entry.message_type,
      image_url |-> entry.image_url, voice_url |-> entry.voice_url,
      response_audio_url |-> entry.response_audio_url, created_at |-> created_at ]

\* The columns of a stored row that the handler set.
Entry(t) ==
    [ id |-> t.id, user_id |-> t.user_id, message |-> t.message,
      response |-> t.response, message_type |-> t.message_type,
      image_url |-> t.image_url, voice_url |-> t.voice_url,
      response_audio_url |-> t.response_audio_url ]

\* (variant: the insert also re-stamps the rows already stored)
Commit_Restamps(rows, row, commit_ok) ==
    IF commit_ok /\ row.response # NoResponse
    THEN {Stored(Entry(t), Now(rows)) : t \in rows} \cup {Stored(row, Now(rows))}
    ELSE rows

\* db.add(chat_entry); db.commit(): the row is inserted, or the commit raises
\* (response is NOT NULL) and nothing is inserted.
Commit(rows, row, commit_ok) ==
    IF commit_ok /\ row.response # NoResponse
    THEN rows \cup {Stored(row, Now(rows))}
    ELSE rows

Persist(r) ==
    /\ req[r].pc = "persist"
    /\ \E commit_ok \in BOOLEAN, rm_ok \in BOOLEAN :
        LET q == req[r]
            row == ChatEntry(r, q)
            rows == Commit(chat_history, row, commit_ok)
        IN  /\ chat_history' = rows
            /\ IF rows # chat_history
               THEN /\ req' = [req EXCEPT ![r] =
                                 [q EXCEPT !.pc = "readback", !.written = @ + 1]]
                    /\ UNCHANGED uploads
               ELSE /\ uploads' = CleanupOnError(q, uploads, rm_ok)
                    /\ req' = [req EXCEPT ![r] =
                                 FailWithCleanup(q, uploads, rm_ok, 500, "persist")]
    /\ UNCHANGED <<call, input, resp>>
    /\ UNCHANGED side_vars

\* db.refresh(chat_entry) and the two history queries, then the response.
\* The refresh raises when the row is no longer in the table.
ReadbackStep(r) ==
    /\ req[r].pc = "readback"
    /\ \E db_ok \in BOOLEAN, rm_ok \in BOOLEAN :
        LET q == req[r]
        IN  IF db_ok /\ (\E t \in chat_history : t.id = <<r, q.written>>)
            THEN /\ req' = [req EXCEPT ![r] =
                              [q EXCEPT !.pc = "done", !.status_code = 200, !.stage = "success"]]
                 /\ UNCHANGED uploads
            ELSE /\ uploads' = CleanupOnError(q, uploads, rm_ok)
                 /\ req' = [req EXCEPT ![r] =
                              FailWithCleanup(q, uploads, rm_ok, 500, "readback")]
    /\ UNCHANGED <<chat_history, call, input>>
    /\ UNCHANGED side_vars

Readback(r) == ReadbackStep(r) /\ UNCHANGED resp

\* The handler's task is cancelled while it waits in an await
\* (CancelledError is no Exception: no except block of the handlers runs).
Cancel(r) ==
    /\ req[r].pc \in {"stt", "generate", "tts"}
    /\ req' = [req EXCEPT ![r] = Fail(@, 0, "cancelled")]
    /\ UNCHANGED <<chat_history, uploads, call, input, resp>>
    /\ UNCHANGED side_vars

\* POST /upload-image up to its provider call: the validation of the
\* message, of the content type and of the size, then the write of the file.
UploadImageWith(r, message, image) ==
    /\ req[r].pc = "idle"
    /\ LET q == [req[r] EXCEPT !.route = "image"]
            v == validate_and_process_message(message)
        IN  IF ~v.ok
            THEN /\ req' = [req EXCEPT ![r] = Fail(q, v.status_code, "validation")]
                 /\ UNCHANGED uploads
            ELSE IF image.content_type \notin ALLOWED_IMAGE_TYPES
            THEN /\ req' = [req EXCEPT ![r] = Fail(q, 400, "upload")]
                 /\ UNCHANGED uploads
            ELSE IF TooLarge(image.size)
            THEN /\ req' = [req EXCEPT ![r] = Fail(q, 400, "upload")]
                 /\ UNCHANGED uploads
            ELSE /\ uploads' = uploads \cup {ImagePath(r)}
                 /\ req' = [req EXCEPT ![r] =
                              [q EXCEPT !.pc = "generate", !.message_text = v.text,
                                        !.file_path = ImagePath(r)]]
    /\ UNCHANGED <<chat_history, call, resp>>
    /\ UNCHANGED side_vars

UploadImage(r) ==
    \E message \in InMessages, image \in Uploads :
        UploadImageWith(r, message, image) /\ UNCHANGED input

\* ------------------------------------------- one generate call, step by step

\* A call of generate_text_response / generate_image_response whose provider
\* outcomes, attempt by attempt, are fixed beforehand: made counts the
\* provider attempts, slept lists the backoff sleeps.
GenInputs == [1..(MAX_RETRIES + 2) -> GenOutcomes \cup {"not_found"}]

GenInit ==
    /\ chat_history = {}
    /\ uploads = {}
    /\ req = [r \in Reqs |-> InitReq]
    /\ \E outcomes \in GenInputs :
          call = [NoCall EXCEPT !.pc = "run", !.outcomes = outcomes]
    /\ input = [r \in Reqs |-> NoInput]
    /\ resp = NoResp
    /\ Quiet

GenerateCall ==
    /\ call.pc = "run"
    /\ call.made < Len(call.outcomes)
    /\ LET o == call.outcomes[call.made + 1]
           step == LoopStep(call.attempt, call.last_error, o)
           c == [call EXCEPT !.made = @ + 1]
       IN  call' = CASE step.act = "return" ->
                          [c EXCEPT !.pc = "returned", !.status_code = step.status_code,
                                    !.result = ResponseText]
                     [] step.act = "return_none" ->
                          [c EXCEPT !.pc = "returned_none", !.status_code = step.status_code]
                     [] step.act = "continue" ->
                          [c EXCEPT !.attempt = @ + 1, !.last_error = step.last_error,
                                    !.slept = Append(@, step.sleep)]
                     [] OTHER ->
                          [c EXCEPT !.pc = "raised", !.status_code = step.status_code,
                                    !.slept = IF step.sleep > 0 THEN Append(@, step.sleep) ELSE @]
    /\ UNCHANGED <<chat_history, uploads, req, input, resp>>
    /\ UNCHANGED side_vars

GenNext == GenerateCall

GenSpec == GenInit /\ [][GenNext]_vars

\* ------------------------------------------------------------ the pipeline

Next ==
    \E r \in Reqs :
        \/ SendMessage(r)
        \/ UploadImage(r)
        \/ SpeechToText(r)
        \/ Generate(r)
        \/ TextToSpeech(r)
        \/ Persist(r)
        \/ Readback(r)
        \/ Cancel(r)

Spec == Init /\ [][Next]_vars

\* ------------------------------------------------------- history queries

\* A user who owns rows but sends none of the requests of Reqs.
OtherUser == NumUsers + 1

\* Row ids are pairs; the order on them stands for the physical order the
\* database happens to scan rows in.
IdLess(a, b) == a[1] < b[1] \/ (a[1] = b[1] /\ a[2] < b[2])

RECURSIVE InScanOrder(_, _)
InScanOrder(rows, tie) ==
    IF rows = {} THEN <<>>
    ELSE LET first == CHOOSE t \in rows : \A u \in rows \ {t} :
                          IF tie THEN IdLess(t.id, u.id) ELSE IdLess(u.id, t.id)
         IN  <<first>> \o InScanOrder(rows \ {first}, tie)

\* .order_by(ChatHistory.created_at.desc()): the rows, newest first.  The
\* query names no second sort key, so the order among rows of equal
\* created_at is whatever the database produces for this query; tie selects
\* one of two such orders.
RECURSIVE OrderByCreatedAtDesc(_, _, _)
OrderByCreatedAtDesc(rows, c, tie) ==
    IF c < 1 THEN <<>>
    ELSE InScanOrder({t \in rows : t.created_at = c}, tie)
            \o OrderByCreatedAtDesc(rows, c - 1, tie)

order_by_created_at_desc(rows, tie) == OrderByCreatedAtDesc(rows, Now(rows) - 1, tie)

\* .offset(skip).limit(limit).all()
offset_limit(chats, skip, limit) ==
    SubSeq(chats, skip + 1, IF skip + limit < Len(chats) THEN skip + limit ELSE Len(chats))

\* (variant: the new row is not excluded)
previous_chats_All(rows, user_id, chat_id, tie) ==
    offset_limit(order_by_created_at_desc({t \in rows : t.user_id = user_id}, tie),
                 0, RECENT_LIMIT)

\* send_message / upload_image: the previous chats of the caller, without the
\* current one, newest first, at most RECENT_LIMIT.
previous_chats(rows, user_id, chat_id, tie) ==
    offset_limit(
        order_by_created_at_desc({t \in rows : t.user_id = user_id /\ t.id # chat_id}, tie),
        0, RECENT_LIMIT)

\* (variant: the count is not filtered on the caller)
total_chats_AllUsers(rows, user_id) == Cardinality(rows)

\* The caller's total chat count.
total_chats(rows, user_id) == Cardinality({t \in rows : t.user_id = user_id})

\* The body of a successful response of send_message / upload_image.
SubmitResponse(r, rows, tie) ==
    LET chat_id == <<r, req[r].written>>
    IN  [ op |-> "submit",
          current_chat |-> CHOOSE t \in rows : t.id = chat_id,
          chat_history |-> previous_chats(rows, current_user(r), chat_id, tie),
          total_chats |-> total_chats(rows, current_user(r)) ]

\* ------------------------------------- one request, inputs and response seen

\* The handlers as above, with what went in and what came out recorded.
SendMessageSeen(r) ==
    \E message \in InMessages, voice \in Uploads \cup {NoUpload} :
        /\ SendMessageWith(r, message, voice)
        /\ input' = [input EXCEPT ![r].message = message, ![r].upload = voice]

UploadImageSeen(r) ==
    \E message \in InMessages, image \in Uploads :
        /\ UploadImageWith(r, message, image)
        /\ input' = [input EXCEPT ![r].message = message, ![r].upload = image]

SpeechToTextSeen(r) ==
    \E outcome \in SttOutcomes, raw \in RawTranscripts :
        /\ SpeechToTextWith(r, outcome, raw)
        /\ input' = [input EXCEPT ![r].outcome = outcome, ![r].raw = raw]

ReadbackSeen(r) ==
    /\ ReadbackStep(r)
    /\ \E tie \in BOOLEAN :
          resp' = IF req'[r].stage = "success"
                  THEN SubmitResponse(r, chat_history, tie)
                  ELSE [op |-> "error", status_code |-> req'[r].status_code]

\* The request that is observed.
Seen == 1

\* A row that was in the table before the request arrived.
SeedPath(kind, k) == <<kind, 0 - k>>

SeedRow(k, user_id, kind, created_at) ==
    [ id |-> <<0, k>>, user_id |-> user_id, message |-> Text(0, 1, 0),
      response |-> ResponseText, message_type |-> kind,
      image_url |-> IF kind = "image" THEN SeedPath("image", k) ELSE NoFile,
      voice_url |-> IF kind = "voice" THEN SeedPath("voice", k) ELSE NoFile,
      response_audio_url |-> IF kind = "voice" THEN SeedPath("audio", k) ELSE NoFile,
      created_at |-> created_at ]

\* The table before the request: n rows of the caller, two by two with the
\* same created_at, and two rows of another user.
Prior(n) ==
    {SeedRow(k, current_user(Seen), "text", (k + 1) \div 2) : k \in 1..n}
        \cup {SeedRow(n + j, OtherUser, "text", j) : j \in 1..2}

PriorCounts == {0, 1, RECENT_LIMIT, RECENT_LIMIT + 1}

InInit ==
    /\ \E n \in PriorCounts : chat_history = Prior(n)
    /\ uploads = {}
    /\ req = [r \in Reqs |-> InitReq]
    /\ call = NoCall
    /\ input = [r \in Reqs |-> NoInput]
    /\ resp = NoResp
    /\ Quiet

InNext ==
    \/ SendMessageSeen(Seen)
    \/ UploadImageSeen(Seen)
    \/ SpeechToTextSeen(Seen)
    \/ Generate(Seen)
    \/ TextToSpeech(Seen)
    \/ Persist(Seen)
    \/ ReadbackSeen(Seen)
    \/ Cancel(Seen)

InSpec == InInit /\ [][InNext]_vars

\* ------------------------------------------------------ the history routes

\* The users who call the history routes.
Callers == {current_user(Seen), OtherUser}

Skips == {0, DEFAULT_LIMIT}
Limits == {DEFAULT_LIMIT, MAX_LIMIT + 1}

\* A list response without the response before it.
PageOf(page) ==
    [ op |-> "list", user_id |-> page.user_id, skip |-> page.skip,
      limit |-> page.limit, chats |-> page.chats ]

\* (variant: the limit is passed to the query as given)
get_chat_history_NoClamp(user_id, skip, limit, tie) ==
    LET chats == offset_limit(
                    order_by_created_at_desc({t \in chat_history : t.user_id = user_id}, tie),
                    skip, limit)
    IN  [ op |-> "list", user_id |-> user_id, skip |-> skip, limit |-> limit,
          chats |-> chats,
          before |-> IF resp.op = "list" /\ resp.user_id = user_id
                     THEN PageOf(resp) ELSE NoResp ]

\* GET /history.  The response also keeps the list response right before it,
\* if that was the last response and went to the same caller.
get_chat_history(user_id, skip, limit, tie) ==
    LET limited == IF limit > MAX_LIMIT THEN MAX_LIMIT ELSE limit
        chats == offset_limit(
                    order_by_created_at_desc({t \in chat_history : t.user_id = user_id}, tie),
                    skip, limited)
    IN  [ op |-> "list", user_id |-> user_id, skip |-> skip, limit |-> limit,
          chats |-> chats,
          before |-> IF resp.op = "list" /\ resp.user_id = user_id
                     THEN PageOf(resp) ELSE NoResp ]

GetChatHistory ==
    /\ \E user_id \in Callers, skip \in Skips, limit \in Limits, tie \in BOOLEAN :
          resp' = get_chat_history(user_id, skip, limit, tie)
    /\ UNCHANGED <<chat_history, uploads, req, call, input>>
    /\ UNCHANGED side_vars

\* (variant: the row is looked up by its id alone)
find_chat_AnyOwner(rows, chat_id, user_id) == {t \in rows : t.id = chat_id}

\* filter(ChatHistory.id == chat_id, ChatHistory.user_id == current_user.id):
\* the rows .first() chooses from.
find_chat(rows, chat_id, user_id) ==
    {t \in rows : t.id = chat_id /\ t.user_id = user_id}

\* GET /history/{chat_id}
get_chat_by_id(user_id, chat_id) ==
    LET found == find_chat(chat_history, chat_id, user_id)
    IN  IF found = {}
        THEN [op |-> "get", user_id |-> user_id, chat_id |-> chat_id,
              status_code |-> 404, chat |-> NoResp]
        ELSE [op |-> "get", user_id |-> user_id, chat_id |-> chat_id,
              status_code |-> 200, chat |-> CHOOSE t \in found : TRUE]

\* The ids a client may ask for: the ids in the table and one that is not.
NoSuchId == <<0, 0>>
ChatIds == {t.id : t \in chat_history} \cup {NoSuchId}

GetChatById ==
    /\ \E user_id \in Callers, chat_id \in ChatIds :
          resp' = get_chat_by_id(user_id, chat_id)
    /\ UNCHANGED <<chat_history, uploads, req, call, input>>
    /\ UNCHANGED side_vars

\* DELETE /history/{chat_id}: the image file of the row is removed outside
\* any try block, so a removal error ends the request (500) before the row
\* is deleted; then db.delete and db.commit.
DeleteChat ==
    /\ \E user_id \in Callers, chat_id \in ChatIds, rm_ok \in BOOLEAN, commit_ok \in BOOLEAN :
          LET found == find_chat(chat_history, chat_id, user_id)
              chat == CHOOSE t \in found : TRUE
              out(code) == [op |-> "delete", user_id |-> user_id, chat_id |-> chat_id,
                            status_code |-> code, rm_failed |-> FALSE,
                            commit_failed |-> FALSE]
          IN  IF found = {}
              THEN /\ resp' = out(404)
                   /\ UNCHANGED <<chat_history, uploads>>
              ELSE IF chat.image_url # NoFile /\ chat.image_url \in uploads /\ ~rm_ok
              THEN /\ resp' = [out(500) EXCEPT !.rm_failed = TRUE]
                   /\ UNCHANGED <<chat_history, uploads>>
              ELSE /\ uploads' = IF chat.image_url # NoFile
                                 THEN uploads \ {chat.image_url} ELSE uploads
                   /\ IF commit_ok
                      THEN /\ chat_history' = chat_history \ {chat}
                           /\ resp' = out(200)
                      ELSE /\ UNCHANGED chat_history
                           /\ resp' = [out(500) EXCEPT !.commit_failed = TRUE]
    /\ UNCHANGED <<req, call, input>>
    /\ UNCHANGED side_vars

\* DELETE /history: the image files of the caller's rows are removed, removal
\* errors being swallowed (failing: the files whose removal raises); then the
\* caller's rows are deleted and the deletion committed.
DeleteAllChats ==
    /\ \E user_id \in Callers, commit_ok \in BOOLEAN :
          LET chats == {t \in chat_history : t.user_id = user_id}
              images == {t.image_url : t \in {u \in chats : u.image_url # NoFile}} \cap uploads
          IN  \E failing \in SUBSET images :
                /\ uploads' = uploads \ (images \ failing)
                /\ IF commit_ok
                   THEN /\ chat_history' = chat_history \ chats
                        /\ resp' = [op |-> "delete_all", user_id |-> user_id,
                                    status_code |-> 200, deleted |-> Cardinality(chats),
                                    rm_failed |-> failing # {}, commit_failed |-> FALSE]
                   ELSE /\ UNCHANGED chat_history
                        /\ resp' = [op |-> "delete_all", user_id |-> user_id,
                                    status_code |-> 500, deleted |-> 0,
                                    rm_failed |-> failing # {}, commit_failed |-> TRUE]
    /\ UNCHANGED <<req, call, input>>
    /\ UNCHANGED side_vars

\* The files the rows refer to.
FilesOf(rows) ==
    UNION {{t.image_url, t.voice_url, t.response_audio_url} \ {NoFile} : t \in rows}

\* A table of both callers, with rows of every type and two rows of equal
\* created_at.
Seeded ==
    { SeedRow(1, current_user(Seen), "image", 1),
      SeedRow(2, current_user(Seen), "voice", 2),
      SeedRow(3, current_user(Seen), "text", 2),
      SeedRow(4, OtherUser, "image", 1),
      SeedRow(5, OtherUser, "voice", 3) }

\* The observed request, a text request, right after its commit.
Committed ==
    [InitReq EXCEPT !.pc = "readback", !.route = "text", !.message_text = Text(0, 1, 0),
                    !.ai_response = ResponseText, !.gen = "ok", !.written = 1]

\* The history routes on a seeded table whose files exist (or, for one of the
\* images, no longer exists), the observed request being about to read back.
HistInit ==
    /\ chat_history = Seeded \cup {Stored(ChatEntry(Seen, [Committed EXCEPT !.written = 0]),
                                          Now(Seeded))}
    /\ \E missing \in SUBSET {SeedPath("image", 4)} : uploads = FilesOf(Seeded) \ missing
    /\ req = [r \in Reqs |-> IF r = Seen THEN Committed ELSE InitReq]
    /\ call = NoCall
    /\ input = [r \in Reqs |-> NoInput]
    /\ resp = NoResp
    /\ Quiet

HistNext ==
    \/ GetChatHistory
    \/ GetChatById
    \/ DeleteChat
    \/ DeleteAllChats
    \/ ReadbackSeen(Seen)

HistSpec == HistInit /\ [][HistNext]_vars

\* ------------------------------------------- DELETE /history, two processes

\* delete_all_chats has no await, so within one process nothing runs between
\* its statements (DeleteAllChats above).  The table is shared with every
\* other server process: there the handler is two statements, the SELECT of
\* the caller's rows and the bulk DELETE with its commit, and whatever
\* another process commits in between is seen by the second but not by the
\* first.  work holds the handler's locals between the two.
DeleteAllSelect ==
    /\ work.pc = "idle"
    /\ \E user_id \in Callers :
          work' = [pc |-> "delete_all", user_id |-> user_id,
                   chats |-> {t \in chat_history : t.user_id = user_id}]
    /\ UNCHANGED <<sync, chat_history, uploads, req, call, input, resp, users, reset_tokens, now, issued>>

\* The loop over the selected rows' image files, then
\* db.query(ChatHistory).filter(user_id == ...).delete(), db.commit() and
\* the message built from len(chats).
DeleteAllDelete ==
    /\ work.pc = "delete_all"
    /\ \E commit_ok \in BOOLEAN :
          LET images == {t.image_url : t \in {u \in work.chats : u.image_url # NoFile}}
                            \cap uploads
              matched == {t \in chat_history : t.user_id = work.user_id}
          IN  \E failing \in SUBSET images :
                /\ uploads' = uploads \ (images \ failing)
                /\ chat_history' = IF commit_ok THEN chat_history \ matched ELSE chat_history
                /\ resp' = [op |-> "delete_all", user_id |-> work.user_id,
                            status_code |-> IF commit_ok THEN 200 ELSE 500,
                            deleted |-> IF commit_ok THEN Cardinality(work.chats) ELSE 0,
                            rm_failed |-> failing # {}, commit_failed |-> ~commit_ok]
    /\ work' = NoWork
    /\ UNCHANGED <<sync, req, call, input, users, reset_tokens, now, issued>>

\* The observed request, a text request, right before its commit.
Generated ==
    [InitReq EXCEPT !.pc = "persist", !.route = "text", !.message_text = Text(0, 1, 0),
                    !.ai_response = ResponseText, !.gen = "ok"]

\* The image and text rows of the seeded table.
Few == {t \in Seeded : t.message_type # "voice"}

\* A delete-all in one process, while the observed request commits its row
\* and single rows are deleted in another.
RaceInit ==
    /\ chat_history = Few
    /\ uploads = FilesOf(Few)
    /\ req = [r \in Reqs |-> IF r = Seen THEN Generated ELSE InitReq]
    /\ call = NoCall
    /\ input = [r \in Reqs |-> NoInput]
    /\ resp = NoResp
    /\ Quiet

RaceNext ==
    \/ DeleteAllSelect
    \/ DeleteAllDelete
    \/ Persist(Seen)
    \/ Readback(Seen)
    \/ DeleteChat

RaceSpec == RaceInit /\ [][RaceNext]_vars

\* ------------------------------------------------- paging a long history

NumTurns == 100

\* created_at of the k-th of the caller's rows: all different, or the two
\* rows on either side of the first page boundary equal, or equal two by two.
Stamp(k, ties) ==
    CASE ties = "boundary" -> IF k > NumTurns - DEFAULT_LIMIT THEN k - 1 ELSE k
      [] ties = "pairs"    -> (k + 1) \div 2
      [] OTHER             -> k

Long(ties) ==
    {SeedRow(k, current_user(Seen), "text", Stamp(k, ties)) : k \in 1..NumTurns}
        \cup {SeedRow(NumTurns + j, OtherUser, "text", j) : j \in 1..2}

PageInit ==
    /\ \E ties \in {"none", "boundary", "pairs"} : chat_history = Long(ties)
    /\ uploads = {}
    /\ req = [r \in Reqs |-> InitReq]
    /\ call = NoCall
    /\ input = [r \in Reqs |-> NoInput]
    /\ resp = NoResp
    /\ Quiet

PageNext == GetChatHistory

PageSpec == PageInit /\ [][PageNext]_vars

\* ------------------------------------------- accounts and password reset

RESET_TOKEN_EXPIRE_MINUTES == 60

MaxRegs == 1
MaxTokens == 2

Passed == [ok |-> TRUE, status_code |-> 200, detail |-> ""]
Refused(code, detail) == [ok |-> FALSE, status_code |-> code, detail |-> detail]

\* utils/validators.py
validate_username(username) ==
    IF username.len < 3 \/ username.len > 50
    THEN Refused(400, "Username must be between 3 and 50 characters")
    ELSE IF ~username.word
    THEN Refused(400, "Username can only contain letters, numbers, and underscores")
    ELSE Passed

validate_password_strength(password) ==
    IF password.len < 8
    THEN Refused(400, "Password must be at least 8 characters long")
    ELSE IF ~password.upper
    THEN Refused(400, "Password must contain at least one uppercase letter")
    ELSE IF ~password.lower
    THEN Refused(400, "Password must contain at least one lowercase letter")
    ELSE IF ~password.digit
    THEN Refused(400, "Password must contain at least one number")
    ELSE Passed

\* The request schemas (UserCreate, ResetPasswordRequest): the length limits
\* of username and password, answered with a 422 before any handler runs.
FieldLengths(username, password) ==
    IF username.len < 3 \/ username.len > 50 \/ password.len < 8 \/ password.len > 100
    THEN Refused(422, "validation error")
    ELSE Passed

\* What clients send.  NewName names an email and a username no account has.
NewName == NumUsers + 2
EmailInputs == {Email(1, FALSE), Email(1, TRUE), Email(NewName, TRUE)}
UsernameInputs ==
    {Handle(1), Handle(NewName), Username(NewName, 2, TRUE), Username(NewName, 4, FALSE)}
SecondPassword == Password(0, 9, TRUE, TRUE, TRUE)
Passwords ==
    { FirstPassword(1), SecondPassword, Password(0, 7, TRUE, TRUE, TRUE),
      Password(0, 8, FALSE, TRUE, TRUE), Password(0, 8, TRUE, FALSE, TRUE),
      Password(0, 8, TRUE, TRUE, FALSE) }
LoginPasswords == {FirstPassword(1), SecondPassword}
ResetPasswords ==
    { FirstPassword(1), SecondPassword, Password(0, 7, TRUE, TRUE, TRUE),
      Password(0, 8, TRUE, TRUE, FALSE) }

\* The registrations clients send: one that is in order, and the ones that
\* differ from it in one field.
UserData(email, username, password) ==
    [email |-> email, username |-> username, password |-> password]
UserInputs ==
    {UserData(email, Handle(NewName), SecondPassword) : email \in EmailInputs}
        \cup {UserData(Email(NewName, TRUE), username, SecondPassword) :
                 username \in UsernameInputs}
        \cup {UserData(Email(NewName, TRUE), Handle(NewName), password) :
                 password \in Passwords}

\* AuthService.register_user up to the insert: the validations and the two
\* look-ups.
register_checks(rows, user_data) ==
    LET n == validate_username(user_data.username)
        p == validate_password_strength(user_data.password)
    IN  IF ~n.ok THEN n
        ELSE IF ~p.ok THEN p
        ELSE IF \E u \in rows : u.email = user_data.email
        THEN Refused(400, "Email already registered")
        ELSE IF \E u \in rows : u.username = user_data.username
        THEN Refused(400, "Username already taken")
        ELSE Passed

\* (variant: the table has no unique constraints)
InsertUser_NoUnique(rows, row, commit_ok) ==
    IF commit_ok THEN rows \cup {row} ELSE rows

\* db.add(new_user); db.commit(): email and username are unique columns, so
\* the commit raises when a row with either exists (or for any other
\* reason), and nothing is inserted.
InsertUser(rows, row, commit_ok) ==
    IF commit_ok /\ ~(\E u \in rows : u.email = row.email \/ u.username = row.username)
    THEN rows \cup {row}
    ELSE rows

\* (variant: a welcome email that cannot be sent fails the registration)
RegisterResponse_FailsOnEmail(user_data, result, user, send_ok) ==
    [ op |-> "register", request |-> user_data,
      status_code |-> IF send_ok THEN result.status_code ELSE 500,
      detail |-> IF send_ok THEN result.detail ELSE "Internal server error",
      user |-> IF send_ok THEN user ELSE NoResp, email_failed |-> ~send_ok ]

\* The response of POST /register.
RegisterResponse(user_data, result, user, send_ok) ==
    [ op |-> "register", request |-> user_data, status_code |-> result.status_code,
      detail |-> result.detail, user |-> user, email_failed |-> ~send_ok ]

\* The row register_user builds and, after the commit, the welcome email
\* (its failure is swallowed) and the response.
RegisterInsert(d, commit_ok, send_ok) ==
    LET row == UserRow(issued.users + 1, d.email, d.username, get_password_hash(d.password))
        rows == InsertUser(users, row, commit_ok)
    IN  IF rows = users
        THEN /\ resp' = RegisterResponse(d, Refused(500, "Internal server error"), NoResp, TRUE)
             /\ UNCHANGED <<users, issued>>
        ELSE /\ users' = rows
             /\ issued' = [issued EXCEPT !.users = @ + 1]
             /\ resp' = RegisterResponse(d, [Passed EXCEPT !.status_code = 201], row, send_ok)

\* POST /register within one process.
Register ==
    /\ issued.users < NumUsers + 1 + MaxRegs
    /\ \E user_data \in UserInputs, commit_ok \in BOOLEAN, send_ok \in BOOLEAN :
          LET d == [user_data EXCEPT !.email = normalize_email(@)]
              f == FieldLengths(d.username, d.password)
              c == register_checks(users, d)
          IN  IF ~f.ok
              THEN resp' = RegisterResponse(d, f, NoResp, TRUE) /\ UNCHANGED <<users, issued>>
              ELSE IF ~c.ok
              THEN resp' = RegisterResponse(d, c, NoResp, TRUE) /\ UNCHANGED <<users, issued>>
              ELSE RegisterInsert(d, commit_ok, send_ok)
    /\ UNCHANGED <<sync, chat_history, uploads, req, call, input, reset_tokens, now, work>>

\* POST /register in a second process: its checks pass ...
RegisterCheck ==
    /\ work.pc = "idle"
    /\ issued.users < NumUsers + 1 + MaxRegs
    /\ \E user_data \in UserInputs :
          LET d == [user_data EXCEPT !.email = normalize_email(@)]
          IN  /\ FieldLengths(d.username, d.password).ok
              /\ register_checks(users, d).ok
              /\ work' = [pc |-> "register", user_data |-> d]
    /\ UNCHANGED <<sync, chat_history, uploads, req, call, input, resp, users, reset_tokens,
                   now, issued>>

\* ... and later it inserts and commits.
RegisterCommit ==
    /\ work.pc = "register"
    /\ \E commit_ok \in BOOLEAN, send_ok \in BOOLEAN :
          RegisterInsert(work.user_data, commit_ok, send_ok)
    /\ work' = NoWork
    /\ UNCHANGED <<sync, chat_history, uploads, req, call, input, reset_tokens, now>>

\* (variant: an unknown email is told apart from a wrong password)
authenticate_user_TellsApart(rows, email, password) ==
    LET found == {u \in rows : u.email = email}
        user == CHOOSE u \in found : TRUE
    IN  IF found = {}
        THEN [ok |-> FALSE, status_code |-> 404, detail |-> "User not found", user |-> NoResp]
        ELSE IF ~verify_password(password, user.hashed_password)
        THEN [ok |-> FALSE, status_code |-> 401, detail |-> "Incorrect email or password",
              user |-> NoResp]
        ELSE [ok |-> TRUE, status_code |-> 200, detail |-> "", user |-> user]

\* AuthService.authenticate_user
authenticate_user(rows, email, password) ==
    LET found == {u \in rows : u.email = email}
        user == CHOOSE u \in found : TRUE
    IN  IF found = {}
        THEN [ok |-> FALSE, status_code |-> 401, detail |-> "Incorrect email or password",
              user |-> NoResp]
        ELSE IF ~verify_password(password, user.hashed_password)
        THEN [ok |-> FALSE, status_code |-> 401, detail |-> "Incorrect email or password",
              user |-> NoResp]
        ELSE [ok |-> TRUE, status_code |-> 200, detail |-> "", user |-> user]

\* POST /login
Login ==
    /\ \E email \in EmailInputs, password \in LoginPasswords :
          LET a == authenticate_user(users, normalize_email(email), password)
          IN  resp' = [ op |-> "login", email |-> email, password |-> password,
                        status_code |-> a.status_code, detail |-> a.detail,
                        user |-> a.user ]
    /\ UNCHANGED <<sync, chat_history, uploads, req, call, input, users, reset_tokens, now,
                   work, issued>>

SentMessage ==
    "Password reset email sent successfully. Check your inbox (or console for testing)."
GenericMessage ==
    "If an account with that email exists, a password reset link has been sent."

\* A row of password_reset_tokens.
TokenRow(token, user_id, expires_at) ==
    [token |-> token, user_id |-> user_id, expires_at |-> expires_at, is_used |-> FALSE]

\* The response of POST /forgot-password.
ForgotResponse(email, code, message, send_ok) ==
    [ op |-> "forgot", email |-> email, status_code |-> code, message |-> message,
      email_failed |-> ~send_ok ]

\* POST /forgot-password: create_password_reset_token raises a 404 for an
\* unknown email, which the route turns into the generic message; for a
\* known email the token is stored, the email is sent (a failure to send is
\* swallowed by the email service) and the other message is returned.
ForgotPassword ==
    /\ \E email \in EmailInputs, commit_ok \in BOOLEAN, send_ok \in BOOLEAN :
          LET found == {u \in users : u.email = normalize_email(email)}
              user == CHOOSE u \in found : TRUE
          IN  IF found = {}
              THEN /\ resp' = ForgotResponse(email, 200, GenericMessage, TRUE)
                   /\ UNCHANGED <<reset_tokens, issued>>
              ELSE /\ issued.tokens < MaxTokens
                   /\ issued' = [issued EXCEPT !.tokens = @ + 1]
                   /\ IF commit_ok
                      THEN /\ reset_tokens' = reset_tokens \cup
                                  {TokenRow(issued.tokens + 1, user.id,
                                            now + RESET_TOKEN_EXPIRE_MINUTES)}
                           /\ resp' = ForgotResponse(email, 200, SentMessage, send_ok)
                      ELSE /\ UNCHANGED reset_tokens
                           /\ resp' = ForgotResponse(email, 500, "Internal server error", TRUE)
    /\ UNCHANGED <<sync, chat_history, uploads, req, call, input, users, now, work>>

\* (variant: a used token is reported before an expired one)
reset_password_UsedFirst(tokens, rows, token, new_password, clock) ==
    LET p == validate_password_strength(new_password)
        found == {t \in tokens : t.token = token}
        reset_token == CHOOSE t \in found : TRUE
    IN  IF ~p.ok THEN p
        ELSE IF found = {} THEN Refused(400, "Invalid or expired reset token")
        ELSE IF reset_token.is_used THEN Refused(400, "Reset token has already been used")
        ELSE IF reset_token.expires_at < clock THEN Refused(400, "Reset token has expired")
        ELSE IF ~(\E u \in rows : u.id = reset_token.user_id)
        THEN Refused(404, "User not found")
        ELSE Passed

\* (variant: an expired token is answered like an unknown one)
reset_password_OneDetail(tokens, rows, token, new_password, clock) ==
    LET p == validate_password_strength(new_password)
        found == {t \in tokens : t.token = token}
        reset_token == CHOOSE t \in found : TRUE
    IN  IF ~p.ok THEN p
        ELSE IF found = {} THEN Refused(400, "Invalid or expired reset token")
        ELSE IF reset_token.expires_at < clock
        THEN Refused(400, "Invalid or expired reset token")
        ELSE IF reset_token.is_used THEN Refused(400, "Reset token has already been used")
        ELSE IF ~(\E u \in rows : u.id = reset_token.user_id)
        THEN Refused(404, "User not found")
        ELSE Passed

\* (variant: the expiry of the token is not checked)
reset_password_NoExpiry(tokens, rows, token, new_password, clock) ==
    LET p == validate_password_strength(new_password)
        found == {t \in tokens : t.token = token}
        reset_token == CHOOSE t \in found : TRUE
    IN  IF ~p.ok THEN p
        ELSE IF found = {} THEN Refused(400, "Invalid or expired reset token")
        ELSE IF reset_token.is_used THEN Refused(400, "Reset token has already been used")
        ELSE IF ~(\E u \in rows : u.id = reset_token.user_id)
        THEN Refused(404, "User not found")
        ELSE Passed

\* AuthService.reset_password up to its writes.
reset_password(tokens, rows, token, new_password, clock) ==
    LET p == validate_password_strength(new_password)
        found == {t \in tokens : t.token = token}
        reset_token == CHOOSE t \in found : TRUE
    IN  IF ~p.ok THEN p
        ELSE IF found = {} THEN Refused(400, "Invalid or expired reset token")
        ELSE IF reset_token.expires_at < clock THEN Refused(400, "Reset token has expired")
        ELSE IF reset_token.is_used THEN Refused(400, "Reset token has already been used")
        ELSE IF ~(\E u \in rows : u.id = reset_token.user_id)
        THEN Refused(404, "User not found")
        ELSE Passed

\* The tokens a client may send: those generated so far and one never
\* generated.
NoSuchToken == 0
TokenInputs == 0..issued.tokens

\* POST /reset-password: on success the new hash and the used flag are
\* written and committed together; a failed commit writes neither.
ResetPassword ==
    /\ \E token \in TokenInputs, new_password \in ResetPasswords, commit_ok \in BOOLEAN :
          LET f == FieldLengths(Handle(1), new_password)
              r == reset_password(reset_tokens, users, token, new_password, now)
              reset_token == CHOOSE t \in reset_tokens : t.token = token
              out(result) == [ op |-> "reset", token |-> token, new_password |-> new_password,
                               status_code |-> result.status_code, detail |-> result.detail ]
          IN  IF ~f.ok
              THEN resp' = out(f) /\ UNCHANGED <<users, reset_tokens>>
              ELSE IF ~r.ok
              THEN resp' = out(r) /\ UNCHANGED <<users, reset_tokens>>
              ELSE IF ~commit_ok
              THEN /\ resp' = out(Refused(500, "Internal server error"))
                   /\ UNCHANGED <<users, reset_tokens>>
              ELSE /\ users' = {IF u.id = reset_token.user_id
                                THEN [u EXCEPT !.hashed_password = get_password_hash(new_password)]
                                ELSE u : u \in users}
                   /\ reset_tokens' = (reset_tokens \ {reset_token})
                                         \cup {[reset_token EXCEPT !.is_used = TRUE]}
                   /\ resp' = out(Passed)
    /\ UNCHANGED <<sync, chat_history, uploads, req, call, input, now, work, issued>>

\* Time passes, up to the next instant at which a comparison of the code
\* changes: the expiry of a token, or the minute after it.
Instants == UNION {{t.expires_at, t.expires_at + 1} : t \in reset_tokens}

Tick ==
    /\ \E t \in Instants : t > now /\ now' = t
    /\ UNCHANGED <<sync, chat_history, uploads, req, call, input, resp, users, reset_tokens,
                   work, issued>>

\* (variant of delete_user: the rows that refer to the user stay)
delete_user_NoCascade(rows, user_id) == rows

\* A row of users is deleted: the rows of chat_history and of
\* password_reset_tokens that refer to it go with it (relationship cascade
\* "all, delete-orphan"; ForeignKey ondelete="CASCADE").  No route does
\* this; it is what the schema does when a user row is removed.
delete_user(rows, user_id) == {t \in rows : t.user_id # user_id}

DeleteUser ==
    /\ \E u \in users :
          /\ users' = users \ {u}
          /\ chat_history' = delete_user(chat_history, u.id)
          /\ reset_tokens' = delete_user(reset_tokens, u.id)
          /\ resp' = [op |-> "delete_user", user_id |-> u.id,
                      chats |-> Cardinality({t \in chat_history : t.user_id = u.id}),
                      tokens |-> Cardinality({t \in reset_tokens : t.user_id = u.id})]
    /\ UNCHANGED <<sync, uploads, req, call, input, now, work, issued>>

AuthInit ==
    /\ chat_history = Few
    /\ uploads = FilesOf(Few)
    /\ req = [r \in Reqs |-> InitReq]
    /\ call = NoCall
    /\ input = [r \in Reqs |-> NoInput]
    /\ resp = NoResp
    /\ Quiet

\* Registration, in two processes, and login.
AuthNext ==
    \/ Register
    \/ RegisterCheck
    \/ RegisterCommit
    \/ Login
    \/ DeleteUser

AuthSpec == AuthInit /\ [][AuthNext]_vars

\* Password reset, with registration in one process.
ResetNext ==
    \/ Register
    \/ ForgotPassword
    \/ ResetPassword
    \/ Tick
    \/ DeleteUser

ResetSpec == AuthInit /\ [][ResetNext]_vars

\* ------------------------------------- the image resource of an attempt

\* One worker thread running _generate_image_content_sync: pc is "waiting"
\* (not submitted), "new" (submitted), "calling" (inside generate_content),
\* "returned" or "raised"; image is the local variable image (None, an open
\* image, a closed image); outcome is what the function returned or raised,
\* as the retry loop classifies it.
Thread(pc, image, outcome) == [pc |-> pc, image |-> image, outcome |-> outcome]
NoThread == Thread("waiting", "None", "none")

\* What the provider call does: returns a text, returns no text, returns a
\* response whose .text raises, or raises.
ProviderOutcomes == {"ok", "empty", "blocked", "net_error", "other_error"}

\* The function up to the provider call: the file is missing (404), or
\* Image.open raises, or the image is open.
OpenImage(exists, open_ok) ==
    IF ~exists THEN Thread("raised", "None", "not_found")
    ELSE IF ~open_ok THEN Thread("raised", "None", "other_error")
    ELSE Thread("calling", "open", "none")

\* (variant: the except block does not close the image)
CallProvider_LeaksOnError(outcome) ==
    CASE outcome = "ok"      -> Thread("returned", "closed", "ok")
      [] outcome = "empty"   -> Thread("raised", "closed", "empty")
      [] outcome = "blocked" -> Thread("raised", "closed", "other_error")
      [] OTHER               -> Thread("raised", "open", outcome)

\* The function from the provider call on: after a response the image is
\* closed, then an empty response raises the 500 and a response whose text
\* cannot be read raises its own error; an error of the call itself goes
\* to the except block, which closes the image and re-raises.
CallProvider(outcome) ==
    CASE outcome = "ok"      -> Thread("returned", "closed", "ok")
      [] outcome = "empty"   -> Thread("raised", "closed", "empty")
      [] outcome = "blocked" -> Thread("raised", "closed", "other_error")
      [] OTHER               -> Thread("raised", "closed", outcome)

Attempts == 0..MAX_RETRIES

\* generate_image_response is called: the first attempt is submitted.
ImgInit ==
    /\ chat_history = {}
    /\ uploads = {}
    /\ req = [r \in Reqs |-> InitReq]
    /\ call = NoCall
    /\ input = [r \in Reqs |-> NoInput]
    /\ resp = NoResp
    /\ users = Registered
    /\ reset_tokens = {}
    /\ now = 0
    /\ work = NoWork
    /\ issued = [users |-> NumUsers + 1, tokens |-> 0]
    /\ sync = [ pc |-> "run", attempt |-> 0, last_error |-> "None", status_code |-> 0,
                thread |-> [a \in Attempts |-> IF a = 0 THEN Thread("new", "None", "none")
                                                ELSE NoThread] ]

img_frame == <<chat_history, uploads, req, call, input, resp, users, reset_tokens, now,
               work, issued>>

\* A submitted thread starts: os.path.exists and Image.open.
ImageOpen ==
    /\ sync.pc # "off"
    /\ \E a \in Attempts, exists \in BOOLEAN, open_ok \in BOOLEAN :
          /\ sync.thread[a].pc = "new"
          /\ sync' = [sync EXCEPT !.thread[a] = OpenImage(exists, open_ok)]
    /\ UNCHANGED img_frame

\* The provider call of a thread ends, and the thread runs to its exit.
ImageCall ==
    /\ sync.pc # "off"
    /\ \E a \in Attempts, outcome \in ProviderOutcomes :
          /\ sync.thread[a].pc = "calling"
          /\ sync' = [sync EXCEPT !.thread[a] = CallProvider(outcome)]
    /\ UNCHANGED img_frame

\* The retry loop after the await of an attempt, given the outcome it saw.
AfterAwait(outcome) ==
    LET step == LoopStep(sync.attempt, sync.last_error, outcome)
    IN  CASE step.act = "return" ->
                [sync EXCEPT !.pc = "returned", !.status_code = step.status_code]
          [] step.act = "return_none" ->
                [sync EXCEPT !.pc = "returned_none", !.status_code = step.status_code]
          [] step.act = "continue" ->
                [sync EXCEPT !.attempt = @ + 1, !.last_error = step.last_error,
                             !.thread[sync.attempt + 1] = Thread("new", "None", "none")]
          [] OTHER ->
                [sync EXCEPT !.pc = "raised", !.status_code = step.status_code]

\* The thread of the current attempt has ended within the timeout.
ImageAwait ==
    /\ sync.pc = "run"
    /\ sync.thread[sync.attempt].pc \in {"returned", "raised"}
    /\ sync' = AfterAwait(sync.thread[sync.attempt].outcome)
    /\ UNCHANGED img_frame

\* asyncio.wait_for gives up on the current attempt; its thread runs on.
ImageTimeout ==
    /\ sync.pc = "run"
    /\ sync.thread[sync.attempt].pc \in {"new", "calling"}
    /\ sync' = AfterAwait("timeout")
    /\ UNCHANGED img_frame

ImgNext ==
    \/ ImageOpen
    \/ ImageCall
    \/ ImageAwait
    \/ ImageTimeout

ImgSpec == ImgInit /\ [][ImgNext]_vars

\* ------------------------------------------------- one transcription call

\* transcript.text as the provider may return it: RawTranscripts, the empty
\* text, and texts with a core with and without surrounding whitespace.
SttTranscripts == RawTranscripts \cup {NoText, Text(0, 1, 0), Text(1, 1, 1)}

\* What transcriber.transcribe does in the worker thread: a transcript, a
\* transcript whose status is error, or an exception.
TranscribeOutcomes == {"ok", "error", "other_error"}

\* One call of convert_voice_to_text: pc is "idle" (not called), "await"
\* (inside asyncio.wait_for), "returned" or "raised"; thread is the worker
\* that runs _transcribe_sync ("none", "new", "done"), outcome and raw what
\* the provider gave it; made counts the calls of transcriber.transcribe;
\* seen is what ended the await.
NoSttCall ==
    [ pc |-> "idle", thread |-> "none", outcome |-> "none", raw |-> NoText, made |-> 0,
      seen |-> "none", status_code |-> 0, text |-> NoText ]

SttInit ==
    /\ chat_history = {}
    /\ uploads = {}
    /\ req = [r \in Reqs |-> InitReq]
    /\ call = NoCall
    /\ input = [r \in Reqs |-> NoInput]
    /\ resp = NoResp
    /\ users = Registered
    /\ reset_tokens = {}
    /\ now = 0
    /\ work = NoWork
    /\ issued = [users |-> NumUsers + 1, tokens |-> 0]
    /\ sync = [r \in Reqs |-> NoSttCall]

\* The call as convert_voice_to_text leaves it for what the await saw.
SttEnd(c, seen, raw) ==
    LET t == convert_voice_to_text(seen, raw)
    IN  [c EXCEPT !.pc = IF t.ok THEN "returned" ELSE "raised", !.seen = seen,
                  !.status_code = t.status_code, !.text = t.text]

\* convert_voice_to_text is called: without the library it raises at once,
\* otherwise _transcribe_sync is handed to the executor.
SttStart ==
    /\ \E r \in Reqs, available \in BOOLEAN :
          /\ sync[r].pc = "idle"
          /\ sync' = [sync EXCEPT ![r] =
                        IF available
                        THEN [@ EXCEPT !.pc = "await", !.thread = "new"]
                        ELSE SttEnd(@, "unavailable", NoText)]
    /\ UNCHANGED img_frame

\* The worker thread runs _transcribe_sync: one call of the provider.
Transcribe ==
    /\ \E r \in Reqs, outcome \in TranscribeOutcomes, raw \in SttTranscripts :
          /\ sync[r].thread = "new"
          /\ sync' = [sync EXCEPT ![r] =
                        [@ EXCEPT !.thread = "done", !.outcome = outcome,
                                  !.raw = IF outcome = "ok" THEN raw ELSE NoText,
                                  !.made = @ + 1]]
    /\ UNCHANGED img_frame

\* The worker has ended within STT_TIMEOUT: its result or exception reaches
\* the coroutine.
SttAwait ==
    /\ \E r \in Reqs :
          /\ sync[r].pc = "await"
          /\ sync[r].thread = "done"
          /\ sync' = [sync EXCEPT ![r] = SttEnd(@, @.outcome, @.raw)]
    /\ UNCHANGED img_frame

\* asyncio.wait_for gives up after STT_TIMEOUT; the worker runs on.
SttTimeout ==
    /\ \E r \in Reqs :
          /\ sync[r].pc = "await"
          /\ sync[r].thread = "new"
          /\ sync' = [sync EXCEPT ![r] = SttEnd(@, "timeout", NoText)]
    /\ UNCHANGED img_frame

SttNext ==
    \/ SttStart
    \/ Transcribe
    \/ SttAwait
    \/ SttTimeout

SttSpec == SttInit /\ [][SttNext]_vars

\* ---------------------------------------------- the life of a stored turn

\* Every operation that runs while turns are stored: the observed request
\* commits its row and reads back, the history routes read and delete, and
\* the account routes run beside them.
LifeNext ==
    \/ Persist(Seen)
    \/ ReadbackSeen(Seen)
    \/ GetChatHistory
    \/ GetChatById
    \/ DeleteChat
    \/ DeleteAllChats
    \/ Login
    \/ DeleteUser

LifeSpec == RaceInit /\ [][LifeNext]_vars

\* ------------------------------------------- GET /history with any limit

\* skip and limit are plain ints of the query string: any integer arrives.
AnySkips == {0 - 1, 0, 1, DEFAULT_LIMIT, NumTurns + 1}
AnyLimits == {0 - 1, 0, 1, DEFAULT_LIMIT, MAX_LIMIT, MAX_LIMIT + 1, 2 * MAX_LIMIT}

\* A history of the caller that is longer than MAX_LIMIT.
Longer(ties) ==
    Long(ties) \cup {SeedRow(NumTurns + 3, current_user(Seen), "text", NumTurns + 1)}

LimitInit ==
    /\ \E ties \in {"none", "boundary", "pairs"} : chat_history = Longer(ties)
    /\ uploads = {}
    /\ req = [r \in Reqs |-> InitReq]
    /\ call = NoCall
    /\ input = [r \in Reqs |-> NoInput]
    /\ resp = NoResp
    /\ Quiet

\* GET /history with the values as sent.  The handler passes a negative skip
\* or limit on to the query; the database (PostgreSQL: the models use its
\* dialect) refuses a negative OFFSET or LIMIT, the query raises and the
\* request ends with a 500.
GetChatHistoryAny ==
    /\ \E user_id \in Callers, skip \in AnySkips, limit \in AnyLimits, tie \in BOOLEAN :
          resp' = IF skip < 0 \/ limit < 0
                  THEN [op |-> "list_error", user_id |-> user_id, skip |-> skip,
                        limit |-> limit, status_code |-> 500]
                  ELSE [get_chat_history(user_id, skip, limit, tie) EXCEPT !.before = NoResp]
    /\ UNCHANGED <<chat_history, uploads, req, call, input>>
    /\ UNCHANGED side_vars

LimitNext == GetChatHistoryAny

LimitSpec == LimitInit /\ [][LimitNext]_vars

\* ------------------------------------ POST /reset-password, two processes

\* reset_password has no await, so within one process nothing runs between
\* its statements (ResetPassword above).  Another server process has its own
\* database session: there the call is the SELECT of the token row with the
\* checks made on the row as read, and later the two UPDATEs with their
\* commit.  The SELECT takes no lock, and the UPDATEs are keyed on the
\* primary keys of the rows, so the commit does not depend on what another
\* process has committed in between.  work holds the locals between the two.
ResetCheck ==
    /\ work.pc = "idle"
    /\ \E token \in TokenInputs, new_password \in ResetPasswords :
          /\ FieldLengths(Handle(1), new_password).ok
          /\ reset_password(reset_tokens, users, token, new_password, now).ok
          /\ work' = [pc |-> "reset", token |-> token, new_password |-> new_password,
                      user_id |-> (CHOOSE t \in reset_tokens : t.token = token).user_id]
    /\ UNCHANGED <<sync, chat_history, uploads, req, call, input, resp, users, reset_tokens,
                   now, issued>>

\* user.hashed_password = ...; reset_token.is_used = True; db.commit()
ResetCommit ==
    /\ work.pc = "reset"
    /\ \E commit_ok \in BOOLEAN :
          LET out(result) == [ op |-> "reset", token |-> work.token,
                               new_password |-> work.new_password,
                               status_code |-> result.status_code, detail |-> result.detail ]
          IN  IF ~commit_ok
              THEN /\ resp' = out(Refused(500, "Internal server error"))
                   /\ UNCHANGED <<users, reset_tokens>>
              ELSE /\ users' = {IF u.id = work.user_id
                                THEN [u EXCEPT !.hashed_password =
                                                   get_password_hash(work.new_password)]
                                ELSE u : u \in users}
                   /\ reset_tokens' = {IF t.token = work.token
                                       THEN [t EXCEPT !.is_used = TRUE]
                                       ELSE t : t \in reset_tokens}
                   /\ resp' = out(Passed)
    /\ work' = NoWork
    /\ UNCHANGED <<sync, chat_history, uploads, req, call, input, now, issued>>

\* Every account has been sent one reset token.
ConsumeInit ==
    /\ chat_history = Few
    /\ uploads = FilesOf(Few)
    /\ req = [r \in Reqs |-> InitReq]
    /\ call = NoCall
    /\ input = [r \in Reqs |-> NoInput]
    /\ resp = NoResp
    /\ users = Registered
    /\ reset_tokens = {TokenRow(u.id, u.id, RESET_TOKEN_EXPIRE_MINUTES) : u \in Registered}
    /\ now = 0
    /\ work = NoWork
    /\ issued = [users |-> NumUsers + 1, tokens |-> NumUsers + 1]
    /\ sync = NoSync

ConsumeNext ==
    \/ ResetPassword
    \/ ResetCheck
    \/ ResetCommit
    \/ Tick

ConsumeSpec == ConsumeInit /\ [][ConsumeNext]_vars

\* ------------------------------------------- submissions at the same time

\* A request right before its commit, after a successful generation.
Ready(r, route) ==
    [InitReq EXCEPT !.pc = "persist", !.route = route, !.message_text = Text(0, 1, 0),
                    !.ai_response = ResponseText, !.gen = "ok",
                    !.file_path = IF route = "image" THEN ImagePath(r) ELSE NoFile]

\* Every request of Reqs is about to commit, in a server process of its
\* own; resp keeps the response of each.
ConcInit ==
    /\ \E n \in {0, 1} : chat_history = Prior(n)
    /\ \E routes \in [Reqs -> {"text", "image"}] :
          /\ req = [r \in Reqs |-> Ready(r, routes[r])]
          /\ uploads = {ImagePath(r) : r \in {q \in Reqs : routes[q] = "image"}}
    /\ call = NoCall
    /\ input = [r \in Reqs |-> NoInput]
    /\ resp = [r \in Reqs |-> NoResp]
    /\ Quiet

\* db.refresh and the two history queries of request r, and its response.
ReadbackOf(r) ==
    /\ ReadbackStep(r)
    /\ \E tie \in BOOLEAN :
          resp' = [resp EXCEPT ![r] =
                     IF req'[r].stage = "success"
                     THEN SubmitResponse(r, chat_history, tie)
                     ELSE [op |-> "error", status_code |-> req'[r].status_code]]

ConcNext ==
    \E r \in Reqs :
        \/ Persist(r)
        \/ ReadbackOf(r)

ConcSpec == ConcInit /\ [][ConcNext]_vars

\* -------------------------------------------- the worker of a synthesis

\* A voice request right before its synthesis: transcribed and answered.
Spoken(r) ==
    [InitReq EXCEPT !.pc = "tts", !.route = "voice", !.message_text = Text(0, 1, 0),
                    !.voice_file_path = VoicePath(r), !.voice_url = VoicePath(r),
                    !.ai_response = ResponseText, !.stt = "ok", !.gen = "ok"]

\* The worker thread that runs _generate_tts_sync for a request: thread is
\* "none" (not submitted), "new" (submitted, running) or "done"; outcome is
\* how it ended; seen is what ended the await of the handler.
NoTtsWorker == [thread |-> "none", outcome |-> "none", seen |-> "none"]

TtsInit ==
    /\ chat_history = {}
    /\ uploads = {VoicePath(r) : r \in Reqs}
    /\ req = [r \in Reqs |-> Spoken(r)]
    /\ call = NoCall
    /\ input = [r \in Reqs |-> NoInput]
    /\ resp = NoResp
    /\ users = Registered
    /\ reset_tokens = {}
    /\ now = 0
    /\ work = NoWork
    /\ issued = [users |-> NumUsers + 1, tokens |-> 0]
    /\ sync = [r \in Reqs |-> NoTtsWorker]

tts_frame == <<chat_history, call, input, resp, users, reset_tokens, now, work, issued>>

\* The handler after convert_text_to_speech ended as seen.
TtsEnd(r, seen) ==
    /\ req' = [req EXCEPT ![r] = AfterTts(@, convert_text_to_speech(seen, FALSE), AudioPath(r))]
    /\ sync' = [sync EXCEPT ![r].seen = seen]

\* convert_text_to_speech is called: without the library it raises at once,
\* otherwise _generate_tts_sync is handed to the executor.
TtsStart(r) ==
    /\ req[r].pc = "tts"
    /\ sync[r].thread = "none"
    /\ \E available \in BOOLEAN :
          IF available
          THEN /\ sync' = [sync EXCEPT ![r].thread = "new"]
               /\ UNCHANGED req
          ELSE TtsEnd(r, "unavailable")
    /\ UNCHANGED uploads
    /\ UNCHANGED tts_frame

\* The worker runs gTTS(...).save(output_path) to its end, whether or not
\* the handler still waits for it: the file is written, or the call fails
\* and may leave the file it opened.
TtsSave(r) ==
    /\ sync[r].thread = "new"
    /\ \E outcome \in {"ok", "error"}, leaves \in BOOLEAN :
          /\ sync' = [sync EXCEPT ![r].thread = "done", ![r].outcome = outcome]
          /\ uploads' = IF convert_text_to_speech(outcome, leaves).file
                        THEN uploads \cup {AudioPath(r)} ELSE uploads
    /\ UNCHANGED req
    /\ UNCHANGED tts_frame

\* The worker has ended within TTS_TIMEOUT.
TtsAwait(r) ==
    /\ req[r].pc = "tts"
    /\ sync[r].thread = "done"
    /\ TtsEnd(r, sync[r].outcome)
    /\ UNCHANGED uploads
    /\ UNCHANGED tts_frame

\* asyncio.wait_for gives up after TTS_TIMEOUT; the worker runs on.
TtsTimeout(r) ==
    /\ req[r].pc = "tts"
    /\ sync[r].thread = "new"
    /\ TtsEnd(r, "timeout")
    /\ UNCHANGED uploads
    /\ UNCHANGED tts_frame

TtsNext ==
    \E r \in Reqs :
        \/ TtsStart(r)
        \/ TtsSave(r)
        \/ TtsAwait(r)
        \/ TtsTimeout(r)
        \/ Persist(r)
        \/ Readback(r)

TtsSpec == TtsInit /\ [][TtsNext]_vars

\* ------------------------------------------------------------- properties

\* The rows request r inserted that are still in the table.
RowsOf(r) == {Entry(t) : t \in {u \in chat_history : u.id[1] = r}}

\* The files request r wrote that are still in the directory.
AssetsOf(r) == {VoicePath(r), ImagePath(r), AudioPath(r)} \cap uploads

PreCommitFailures == {"no_input", "upload", "validation", "stt", "generate", "cancelled"}

\* C1: a request inserts at most one row, and only after its generation (and,
\* on the voice route, its transcription) has succeeded; a request that
\* failed in validation, transcription or generation, or was cancelled, has
\* inserted nothing; and no step other than a request's own commit changes
\* the table.
C1_State ==
    \A r \in Reqs :
        /\ req[r].written <= 1
        /\ Cardinality(RowsOf(r)) <= req[r].written
        /\ req[r].written = 1 =>
              /\ req[r].gen = "ok"
              /\ req[r].route = "voice" => req[r].stt = "ok"
        /\ req[r].stage \in PreCommitFailures => req[r].written = 0 /\ RowsOf(r) = {}

C1_Step ==
    \A r \in Reqs :
        (req'[r] # req[r] /\ req[r].pc # "persist") => chat_history' = chat_history

C1_TurnWrittenOnceAfterSuccess == [](C1_State) /\ [][C1_Step]_vars

C1_Witness ==
    \E r, r2 \in Reqs :
        /\ req[r].route = "voice" /\ req[r].written = 1 /\ RowsOf(r) # {}
        /\ req[r2].stage = "cancelled"

\* C2 (as claimed): a request that failed in transcription, in the validation
\* of the transcript, in generation or in persistence leaves none of the
\* files it wrote, even when no removal it attempted failed.
C2_NoAssetAfterFailure ==
    \A r \in Reqs :
        ( /\ req[r].pc = "done"
          /\ req[r].stage \in {"stt", "validation", "generate", "persist"}
          /\ req[r].rm # "failed" )
        => AssetsOf(r) = {}

\* C3 (as claimed): after a failed transcription nothing is persisted, no
\* generation or synthesis call was made, and the audio file is gone.
C3_AudioGoneAfterSttFailure ==
    \A r \in Reqs :
        (req[r].route = "voice" /\ req[r].stt = "failed") =>
            /\ req[r].pc = "done"
            /\ req[r].written = 0 /\ RowsOf(r) = {}
            /\ req[r].gen = "none" /\ req[r].tts = "none"
            /\ VoicePath(r) \notin uploads

\* C3 (amended): after a failed transcription the request has ended with an
\* error, nothing is persisted, no generation or synthesis call was made,
\* and the audio file is gone unless its removal itself failed.
C3_AudioGoneUnlessRemovalFailed ==
    \A r \in Reqs :
        (req[r].route = "voice" /\ req[r].stt = "failed") =>
            /\ req[r].pc = "done" /\ req[r].status_code = 500
            /\ req[r].written = 0 /\ RowsOf(r) = {}
            /\ req[r].gen = "none" /\ req[r].tts = "none"
            /\ \/ req[r].rm = "removed" /\ VoicePath(r) \notin uploads
               \/ req[r].rm = "failed" /\ VoicePath(r) \in uploads

C3_Witness ==
    \E r \in Reqs :
        req[r].route = "voice" /\ req[r].stt = "failed" /\ req[r].rm = "removed"

\* C4: when the transcription succeeded and the generation failed, nothing is
\* persisted and the stored audio file still exists.
C4_AudioKeptAfterGenerationFailure ==
    \A r \in Reqs :
        (req[r].route = "voice" /\ req[r].stt = "ok" /\ req[r].stage = "generate") =>
            /\ req[r].pc = "done" /\ req[r].status_code \in {500, 504}
            /\ req[r].written = 0 /\ RowsOf(r) = {}
            /\ VoicePath(r) \in uploads

C4_Witness ==
    \E r \in Reqs :
        /\ req[r].route = "voice" /\ req[r].stt = "ok" /\ req[r].stage = "generate"
        /\ req[r].pc = "done"

\* The status of the error the generation step raises for the outcome of its
\* last attempt.
RaisedBy(outcome) ==
    CASE outcome = "timeout" -> 504
      [] outcome = "not_found" -> 404
      [] OTHER -> 500

\* C5 (as claimed): an image request whose generation failed has the status
\* of the generation error, no row, and its image file is deleted.
C5_ImageGoneAfterGenerationFailure ==
    \A r \in Reqs :
        (req[r].route = "image" /\ req[r].stage = "generate") =>
            /\ req[r].pc = "done" /\ req[r].status_code = RaisedBy(req[r].gen)
            /\ req[r].written = 0 /\ RowsOf(r) = {}
            /\ ImagePath(r) \notin uploads

\* C5 (amended): the same, the image file being deleted unless its removal
\* itself failed.
C5_ImageGoneUnlessRemovalFailed ==
    \A r \in Reqs :
        (req[r].route = "image" /\ req[r].stage = "generate") =>
            /\ req[r].pc = "done" /\ req[r].status_code = RaisedBy(req[r].gen)
            /\ req[r].gen # "ok"
            /\ req[r].written = 0 /\ RowsOf(r) = {}
            /\ \/ req[r].rm = "removed" /\ ImagePath(r) \notin uploads
               \/ req[r].rm = "failed" /\ ImagePath(r) \in uploads

C5_Witness ==
    \E r \in Reqs :
        /\ req[r].route = "image" /\ req[r].stage = "generate"
        /\ req[r].gen = "timeout" /\ req[r].rm = "removed"

\* The one row a voice request with a failed synthesis persists.
VoiceRowWithoutAudio(r) ==
    [ id |-> <<r, 1>>, user_id |-> current_user(r), message |-> req[r].message_text,
      response |-> ResponseText, message_type |-> "voice", image_url |-> NoFile,
      voice_url |-> VoicePath(r), response_audio_url |-> NoFile ]

\* C6 (as claimed): a voice request whose synthesis failed still succeeds,
\* with exactly one row of type voice, voice_url set, response_audio_url unset.
C6_SucceedsAfterTtsFailure ==
    \A r \in Reqs :
        (req[r].route = "voice" /\ req[r].tts = "failed" /\ req[r].pc = "done") =>
            /\ req[r].status_code = 200
            /\ RowsOf(r) = {VoiceRowWithoutAudio(r)}

\* C6 (amended): a failed synthesis never fails the request: the request goes
\* on to the commit with response_audio_url unset and can then fail only in
\* the database (commit or readback, 500); once the commit succeeded there is
\* exactly one row of the request, of type voice, voice_url set and
\* response_audio_url unset, and when the readback succeeded too the request
\* succeeds.
C6_TtsFailureDoesNotFailRequest ==
    \A r \in Reqs :
        (req[r].route = "voice" /\ req[r].tts = "failed") =>
            /\ req[r].stt = "ok" /\ req[r].gen = "ok"
            /\ req[r].response_audio_url = NoFile
            /\ req[r].pc \in {"persist", "readback", "done"}
            /\ req[r].pc = "done" => req[r].stage \in {"success", "persist", "readback"}
            /\ req[r].stage = "success" => req[r].status_code = 200
            /\ req[r].stage \in {"persist", "readback"} => req[r].status_code = 500
            /\ IF req[r].pc = "persist" \/ req[r].stage = "persist"
               THEN RowsOf(r) = {}
               ELSE RowsOf(r) = {VoiceRowWithoutAudio(r)}

C6_Witness ==
    \E r \in Reqs :
        /\ req[r].route = "voice" /\ req[r].tts = "failed"
        /\ req[r].pc = "done" /\ req[r].status_code = 200

\* The one row a text request persists.
TextRow(r) ==
    [ id |-> <<r, 1>>, user_id |-> current_user(r), message |-> req[r].message_text,
      response |-> ResponseText, message_type |-> "text", image_url |-> NoFile,
      voice_url |-> NoFile, response_audio_url |-> NoFile ]

\* C7 (as claimed): a valid text request whose generation succeeded persists
\* exactly one row, of type text, owned by the caller, without media
\* references, and calls no speech adapter.
C7_TextTurnPersisted ==
    \A r \in Reqs :
        (req[r].route = "text" /\ req[r].gen = "ok" /\ req[r].pc = "done") =>
            /\ RowsOf(r) = {TextRow(r)}
            /\ req[r].stt = "none" /\ req[r].tts = "none"

\* C7 (amended): the same for a request whose commit succeeded; a request
\* whose commit failed persists nothing.
C7_TextTurnPersistedOnCommit ==
    \A r \in Reqs :
        (req[r].route = "text" /\ req[r].gen = "ok") =>
            /\ req[r].stt = "none" /\ req[r].tts = "none"
            /\ req[r].message_text.core > 0
            /\ IF req[r].pc = "persist" \/ req[r].stage = "persist"
               THEN RowsOf(r) = {}
               ELSE RowsOf(r) = {TextRow(r)} /\ req[r].written = 1

C7_Witness ==
    \E r \in Reqs :
        /\ req[r].route = "text" /\ req[r].gen = "ok"
        /\ req[r].pc = "done" /\ req[r].status_code = 200 /\ RowsOf(r) = {TextRow(r)}

\* C8 (as claimed): a call whose every attempt failed with a transient
\* network-class error, so that the retries are exhausted, fails with 503.
C8_ExhaustedRetriesRaise503 ==
    ( /\ call.pc # "run"
      /\ call.made = MAX_RETRIES + 1
      /\ \A i \in 1..call.made : call.outcomes[i] \in {"net_error", "timeout"} )
    => (call.pc = "raised" /\ call.status_code = 503)

\* C9: a generate call makes at most MAX_RETRIES + 1 provider attempts, makes
\* a further attempt only after a timeout or a network-class error, returns
\* on its first successful attempt, and ends with a response text or with an
\* error.
C9_BoundedRetries ==
    /\ call.made <= MAX_RETRIES + 1
    /\ \A i \in 1..call.made :
          /\ i < call.made => call.outcomes[i] \in {"timeout", "net_error"}
          /\ call.outcomes[i] = "ok" => (i = call.made /\ call.pc = "returned")
    /\ call.pc \in {"run", "returned", "raised"}
    /\ call.pc = "run" => call.made <= MAX_RETRIES
    /\ call.pc = "returned" =>
          /\ call.made >= 1 /\ call.outcomes[call.made] = "ok"
          /\ call.result = ResponseText /\ call.status_code = 200
    /\ call.pc = "raised" =>
          /\ call.made >= 1 /\ call.outcomes[call.made] # "ok"
          /\ call.result = NoResponse /\ call.status_code \in {404, 500, 503, 504}

C9_Witness ==
    /\ call.pc = "returned" /\ call.made = MAX_RETRIES + 1
    /\ call.outcomes[1] = "timeout" /\ call.outcomes[2] = "net_error"

NonTransient == {"empty", "not_found", "other_error"}

\* C10: a non-transient failure of an attempt (an HTTPException, or an untyped
\* error without a network keyword) ends the call on that attempt: no later
\* attempt and no backoff sleep follow it.
C10_NonTransientEndsCall ==
    \A i \in 1..call.made :
        call.outcomes[i] \in NonTransient =>
            /\ call.made = i
            /\ call.pc = "raised"
            /\ Len(call.slept) = i - 1

C10_Witness ==
    /\ call.pc = "raised" /\ call.made = 2
    /\ call.outcomes[1] = "net_error" /\ call.outcomes[2] = "other_error"

\* C11 (as claimed): a request that failed because the speech-to-text call, or
\* the last generation attempt, exceeded its deadline ends with status 504.
C11_DeadlineExceededRaises504 ==
    \A r \in Reqs :
        ( /\ req[r].pc = "done"
          /\ \/ req[r].stage = "stt" /\ input[r].outcome = "timeout"
             \/ req[r].stage = "generate" /\ req[r].gen = "timeout" )
        => req[r].status_code = 504

\* The text a request hands to validate_and_process_message, once it has:
\* the message field, or on the voice route the transcript.
Normalized(r) == IF req[r].route = "voice" THEN strip(input[r].raw) ELSE input[r].message

NormalizeRan(r) ==
    \/ req[r].route \in {"text", "image"} /\ req[r].pc # "idle"
    \/ req[r].route = "voice" /\ req[r].stt = "ok"

\* C12 (as claimed): the text is accepted exactly when its trimmed form is
\* non-empty and at most 5000 characters long, the request then carries the
\* trimmed text; otherwise the request fails with 400.  Every stored message
\* is non-empty, has no surrounding whitespace and at most 5000 characters.
C12_NormalizeAcceptsTrimmedText ==
    /\ \A r \in Reqs :
          NormalizeRan(r) =>
              IF len(strip(Normalized(r))) > 0
                    /\ len(strip(Normalized(r))) <= MAX_MESSAGE_LENGTH
              THEN /\ req[r].stage \notin {"validation", "no_input"}
                   /\ req[r].stage # "upload" => req[r].message_text = strip(Normalized(r))
              ELSE /\ req[r].pc = "done" /\ req[r].status_code = 400
                   /\ req[r].stage \in {"validation", "no_input"}
    /\ \A t \in chat_history :
          /\ t.message.core > 0 /\ t.message.lead = 0 /\ t.message.trail = 0
          /\ len(t.message) <= MAX_MESSAGE_LENGTH

\* C13: a request to /message without a voice part and without a message
\* (none, empty, or whitespace only) ends with 400; it wrote no file, called
\* no speech or generation adapter and inserted nothing.
C13_NoInputRejectedBeforeAnyEffect ==
    \A r \in Reqs :
        ( /\ req[r].pc # "idle"
          /\ ~input[r].upload.present
          /\ len(strip(input[r].message)) = 0 )
        => /\ req[r].pc = "done" /\ req[r].status_code = 400
           /\ req[r].route = "text"
           /\ AssetsOf(r) = {}
           /\ req[r].stt = "none" /\ req[r].gen = "none" /\ req[r].tts = "none"
           /\ req[r].written = 0 /\ RowsOf(r) = {}

C13_Witness ==
    \E r \in Reqs :
        /\ req[r].pc = "done" /\ req[r].stage = "no_input"
        /\ ~input[r].upload.present /\ input[r].message = NoText

\* The allow-list of the route's media part.
AllowedTypes(route) == IF route = "image" THEN ALLOWED_IMAGE_TYPES ELSE ALLOWED_AUDIO_TYPES

BadUpload(r) ==
    /\ input[r].upload.present
    /\ \/ input[r].upload.content_type \notin AllowedTypes(req[r].route)
       \/ input[r].upload.size > MAX_UPLOAD_SIZE

\* C14: on both upload routes a media part of a type outside the allow-list,
\* or larger than the ceiling, ends the request with 400; no file was
\* written, no adapter was called and no row inserted.
C14_BadUploadRejectedBeforeWrite ==
    \A r \in Reqs :
        (req[r].pc # "idle" /\ BadUpload(r)) =>
            /\ req[r].pc = "done" /\ req[r].status_code = 400
            /\ AssetsOf(r) = {}
            /\ req[r].stt = "none" /\ req[r].gen = "none" /\ req[r].tts = "none"
            /\ req[r].written = 0 /\ RowsOf(r) = {}

C14_Witness ==
    \E r \in Reqs :
        /\ req[r].route = "image" /\ req[r].stage = "upload"
        /\ input[r].upload.content_type = "application/zip"
        /\ uploads = {}

\* C15: a request to /message that carries both a voice part and a text is a
\* voice request: what it persists has type voice and the transcript as its
\* message, never the supplied text, and when the transcription fails the
\* request fails without a generation call.
C15_VoiceTakesPrecedence ==
    \A r \in Reqs :
        ( /\ req[r].pc # "idle" /\ req[r].route # "image"
          /\ input[r].upload.present /\ len(input[r].message) > 0 )
        => /\ req[r].route = "voice"
           /\ req[r].message_text \in {NoText, strip(input[r].raw)}
           /\ \A t \in RowsOf(r) :
                 /\ t.message_type = "voice"
                 /\ t.message = strip(input[r].raw)
                 /\ t.message # strip(input[r].message)
           /\ req[r].stt = "failed" =>
                 /\ req[r].pc = "done" /\ req[r].status_code = 500
                 /\ req[r].gen = "none" /\ req[r].written = 0 /\ RowsOf(r) = {}

C15_Witness ==
    \E r \in Reqs :
        /\ input[r].upload.present /\ input[r].message.core > 0
        /\ req[r].route = "voice" /\ req[r].written = 1 /\ RowsOf(r) # {}

\* C16: a generation attempt that yields no response text ends the request at
\* once with 500 and nothing inserted (no state has a request going on after
\* such an attempt); every stored row has a response text.
C16_EmptyResponseNeverPersisted ==
    /\ \A r \in Reqs :
          req[r].gen = "empty" =>
              /\ req[r].pc = "done" /\ req[r].stage = "generate"
              /\ req[r].status_code = 500
              /\ req[r].written = 0 /\ RowsOf(r) = {}
    /\ \A t \in chat_history : t.response = ResponseText

C16_Witness ==
    \E r, r2 \in Reqs :
        /\ req[r].gen = "empty" /\ req[r].pc = "done"
        /\ req[r2].written = 1 /\ RowsOf(r2) # {}

\* C17: the response of a successful request lists at most RECENT_LIMIT rows,
\* all of the caller, none the new row, newest first and none older than a
\* row of the caller left out; total_chats counts the caller's rows, the new
\* one included.  The observed request runs alone: with n rows of the caller
\* before it, the list has min(n, RECENT_LIMIT) rows and total_chats is n + 1.
C17_ReadbackRecentAndTotal ==
    resp.op = "submit" =>
        LET recent == resp.chat_history
            new == resp.current_chat
            mine == {t \in chat_history : t.user_id = current_user(Seen)}
            n == Cardinality({t \in mine : t.id[1] = 0})
        IN  /\ new \in mine /\ new.id[1] = Seen
            /\ Len(recent) <= RECENT_LIMIT
            /\ \A i \in 1..Len(recent) :
                  /\ recent[i] \in mine
                  /\ recent[i].id # new.id
                  /\ \A j \in (i + 1)..Len(recent) :
                        /\ recent[i].created_at >= recent[j].created_at
                        /\ recent[i].id # recent[j].id
                  /\ \A t \in mine \ {new} :
                        (\A j \in 1..Len(recent) : recent[j].id # t.id)
                            => recent[i].created_at >= t.created_at
            /\ resp.total_chats = Cardinality(mine)
            /\ Len(recent) = (IF n < RECENT_LIMIT THEN n ELSE RECENT_LIMIT)
            /\ resp.total_chats = n + 1

C17_Witness ==
    /\ resp.op = "submit"
    /\ Len(resp.chat_history) = RECENT_LIMIT
    /\ resp.total_chats = RECENT_LIMIT + 2

\* C18 (as claimed): with at least 100 rows of a caller, a page (0, 50) and
\* the page (50, 50) read right after it have 50 rows each, share no row, are
\* ordered newest first across both pages, and together are the caller's 100
\* newest rows; rows of equal created_at do not disturb this.
C18_PagesDisjointContiguousOrdered ==
    ( /\ resp.op = "list" /\ resp.before.op = "list"
      /\ resp.before.skip = 0 /\ resp.before.limit = DEFAULT_LIMIT
      /\ resp.skip = DEFAULT_LIMIT /\ resp.limit = DEFAULT_LIMIT
      /\ Cardinality({t \in chat_history : t.user_id = resp.user_id}) >= 2 * DEFAULT_LIMIT )
    => LET both == resp.before.chats \o resp.chats
           listed == {both[i].id : i \in 1..Len(both)}
       IN  /\ Len(resp.before.chats) = DEFAULT_LIMIT /\ Len(resp.chats) = DEFAULT_LIMIT
           /\ \A i \in 1..Len(both) : \A j \in (i + 1)..Len(both) :
                 /\ both[i].id # both[j].id
                 /\ both[i].created_at >= both[j].created_at
           /\ \A t \in chat_history :
                 (t.user_id = resp.user_id /\ t.id \notin listed) =>
                     \A i \in 1..Len(both) : both[i].created_at >= t.created_at

\* Whether the table holds a row with that id owned by that user.
Owns(user_id, chat_id) ==
    \E t \in chat_history : t.id = chat_id /\ t.user_id = user_id

C19_State ==
    /\ resp.op = "list" =>
          \A i \in 1..Len(resp.chats) : resp.chats[i].user_id = resp.user_id
    /\ resp.op = "submit" =>
          /\ resp.current_chat.user_id = current_user(Seen)
          /\ \A i \in 1..Len(resp.chat_history) :
                resp.chat_history[i].user_id = current_user(Seen)
    /\ resp.op = "get" =>
          IF Owns(resp.user_id, resp.chat_id)
          THEN /\ resp.status_code = 200
               /\ resp.chat.id = resp.chat_id /\ resp.chat.user_id = resp.user_id
          ELSE resp.status_code = 404 /\ resp.chat = NoResp

C19_Step ==
    (resp'.op = "delete" /\ ~Owns(resp'.user_id, resp'.chat_id)) =>
        /\ resp'.status_code = 404
        /\ chat_history' = chat_history
        /\ uploads' = uploads

\* C19: a list, a readback and a get return only rows of the caller; a get or
\* a delete of an id that is another user's row answers 404, exactly as for
\* an id that is no row at all, and the delete changes neither the table nor
\* the files.
C19_HistoryScopedToCaller == [](C19_State) /\ [][C19_Step]_vars

C19_Witness ==
    /\ resp.op = "delete" /\ resp.status_code = 404
    /\ \E t \in chat_history :
          /\ t.id = resp.chat_id /\ t.user_id # resp.user_id
          /\ t.image_url \in uploads

C20_Step ==
    ( /\ chat_history' # chat_history
      /\ resp'.op \in {"delete", "delete_all"}
      /\ resp'.status_code = 200 /\ ~resp'.rm_failed )
    => FilesOf(chat_history \ chat_history') \cap uploads' = {}

\* C20 (as claimed): a successful delete of one row or of all rows of a
\* caller, none of whose file removals failed, leaves no file that a deleted
\* row referred to (image, voice input, response audio).
C20_DeletedTurnsLeaveNoAsset == [][C20_Step]_vars

\* The rows a delete request is aimed at.
Targeted(rows, r) ==
    IF r.op = "delete" THEN find_chat(rows, r.chat_id, r.user_id)
    ELSE {t \in rows : t.user_id = r.user_id}

C21_Step ==
    ( /\ resp'.op \in {"delete", "delete_all"}
      /\ resp'.rm_failed /\ ~resp'.commit_failed )
    => /\ resp'.status_code = 200
       /\ Targeted(chat_history, resp') \cap chat_history' = {}

\* C21 (as claimed): when the removal of a file fails during a delete of one
\* row or of all rows of a caller (and the commit itself does not fail), the
\* request still answers 200 and the targeted rows are gone.
C21_AssetRemovalFailureDoesNotBlock == [][C21_Step]_vars

\* The same for DELETE /history alone.
C21_DeleteAllStep ==
    (resp'.op = "delete_all" /\ resp'.rm_failed /\ ~resp'.commit_failed)
    => /\ resp'.status_code = 200
       /\ Targeted(chat_history, resp') \cap chat_history' = {}

C21_DeleteAllIgnoresRemovalFailure == [][C21_DeleteAllStep]_vars

\* What a successful delete-all answering r did to the table: the caller has
\* no row left, the rows of the others are the same, and the count reported
\* is the number of rows removed.
DeletedAllAndCounted(r, before, after) ==
    /\ {t \in after : t.user_id = r.user_id} = {}
    /\ {t \in after : t.user_id # r.user_id} = {t \in before : t.user_id # r.user_id}
    /\ r.deleted = Cardinality(before \ after)

C22_Step ==
    (work.pc = "delete_all" /\ resp'.op = "delete_all" /\ resp'.status_code = 200)
    => DeletedAllAndCounted(resp', chat_history, chat_history')

\* C22 (as claimed): a successful DELETE /history leaves the caller without
\* rows and the other users' rows as they were, and reports the number of
\* rows it removed, also when another process commits a row of the caller,
\* or deletes one, between the handler's two statements.
C22_DeleteAllCountsWhatItRemoved == [][C22_Step]_vars

C22_AloneStep ==
    (resp'.op = "delete_all" /\ resp'.status_code = 200)
    => DeletedAllAndCounted(resp', chat_history, chat_history')

\* The same within one process, where the handler runs as one step.
C22_DeleteAllCountsWhenAlone == [][C22_AloneStep]_vars

\* A step of POST /reset-password (the clock stands still during it).
ResetStep == resp'.op = "reset" /\ now' = now

\* The new password passes the schema and the strength policy.
Compliant(password) ==
    FieldLengths(Handle(1), password).ok /\ validate_password_strength(password).ok

\* The stored row of a token.
TokenOf(token) == CHOOSE t \in reset_tokens : t.token = token
Known(token) == \E t \in reset_tokens : t.token = token

\* The step consumed the token: its used flag is set and its owner has the
\* hash of the new password.
Consumed(token, new_password) ==
    LET t == TokenOf(token)
    IN  /\ reset_tokens' = (reset_tokens \ {t}) \cup {[t EXCEPT !.is_used = TRUE]}
        /\ users' = {IF u.id = t.user_id
                     THEN [u EXCEPT !.hashed_password = get_password_hash(new_password)]
                     ELSE u : u \in users}

C23_AsClaimedStep ==
    (ResetStep /\ Known(resp'.token) /\ Compliant(resp'.new_password))
    => LET t == TokenOf(resp'.token)
       IN  IF t.is_used
           THEN /\ resp'.status_code = 400
                /\ resp'.detail = "Reset token has already been used"
                /\ users' = users
           ELSE ~(t.expires_at < now) => resp'.status_code = 200

\* C23 (as claimed): a call with an unused, unexpired token and a compliant
\* password succeeds, and every call with a token that was consumed before
\* fails with the 'already used' error and changes no password hash.
C23_FirstSucceedsLaterAlreadyUsed == [][C23_AsClaimedStep]_vars

C23_Step ==
    (ResetStep /\ Known(resp'.token) /\ Compliant(resp'.new_password))
    => LET t == TokenOf(resp'.token)
       IN  IF t.is_used
           THEN /\ resp'.status_code = 400
                /\ resp'.detail = IF t.expires_at < now
                                  THEN "Reset token has expired"
                                  ELSE "Reset token has already been used"
                /\ users' = users /\ reset_tokens' = reset_tokens
           ELSE ~(t.expires_at < now) =>
                  \/ /\ resp'.status_code = 200
                     /\ Consumed(resp'.token, resp'.new_password)
                  \/ /\ resp'.status_code = 500
                     /\ users' = users /\ reset_tokens' = reset_tokens

\* C23 (amended): a call with an unused, unexpired token and a compliant
\* password consumes the token, unless the commit fails, in which case
\* nothing is written and the token stays usable; every call with a consumed
\* token fails and writes nothing, with the 'already used' error until the
\* token expires and with the 'expired' error afterwards.
C23_ConsumedOnceThenRefused == [][C23_Step]_vars

C23_Witness ==
    /\ resp.op = "reset" /\ Known(resp.token) /\ Compliant(resp.new_password)
    /\ TokenOf(resp.token).is_used
    /\ resp.detail = "Reset token has expired"

\* The step wrote neither table.
NothingWritten == users' = users /\ reset_tokens' = reset_tokens

\* Some token's used flag is set by the step.
SomeTokenFlips ==
    \E t \in reset_tokens : \E n \in reset_tokens' :
        n.token = t.token /\ ~t.is_used /\ n.is_used

\* Some user's password hash is changed by the step.
SomeHashChanges ==
    \E u \in users : \E n \in users' :
        n.id = u.id /\ n.hashed_password # u.hashed_password

C24_Step ==
    /\ (ResetStep /\ Compliant(resp'.new_password)) =>
          IF ~Known(resp'.token)
          THEN /\ resp'.status_code = 400
               /\ resp'.detail = "Invalid or expired reset token"
               /\ NothingWritten
          ELSE LET t == TokenOf(resp'.token)
                   expired == t.expires_at < now
               IN  CASE expired /\ ~t.is_used ->
                          /\ resp'.status_code = 400
                          /\ resp'.detail = "Reset token has expired"
                          /\ NothingWritten
                     [] ~expired /\ t.is_used ->
                          /\ resp'.status_code = 400
                          /\ resp'.detail = "Reset token has already been used"
                          /\ NothingWritten
                     [] expired /\ t.is_used ->
                          /\ resp'.status_code = 400
                          /\ resp'.detail \in {"Reset token has expired",
                                               "Reset token has already been used"}
                          /\ NothingWritten
                     [] OTHER ->
                          IF resp'.status_code = 200
                          THEN Consumed(resp'.token, resp'.new_password)
                          ELSE NothingWritten
    /\ (SomeTokenFlips \/ SomeHashChanges) =>
          /\ ResetStep /\ resp'.status_code = 200
          /\ Consumed(resp'.token, resp'.new_password)

\* C24: with a compliant password, POST /reset-password answers an unknown
\* token, an expired token and a used token with three different details
\* and writes nothing; a call that succeeds sets the used flag and the new
\* hash in the same step, a call that does not succeed sets neither, and no
\* other step sets a used flag or changes a hash.
C24_DistinctFailuresAtomicSuccess == [][C24_Step]_vars

C24_Witness ==
    /\ resp.op = "reset" /\ resp.status_code = 200
    /\ Known(resp.token) /\ TokenOf(resp.token).is_used
    /\ \E u \in users :
          /\ u.id = TokenOf(resp.token).user_id
          /\ u.hashed_password = get_password_hash(resp.new_password)
          /\ u.hashed_password # Account(u.id).hashed_password

C25_Step ==
    ( /\ resp.op = "forgot" /\ resp.status_code = 200
      /\ resp'.op = "forgot" /\ resp'.status_code = 200 )
    => resp'.message = resp.message

\* C25 (as claimed): any two answers of POST /forgot-password, one right
\* after the other, carry the same message, whether or not the emails they
\* were asked for belong to an account.
C25_ForgotPasswordUniform == [][C25_Step]_vars

\* What a failed authentication shows the caller.
Failure(a) == [status_code |-> a.status_code, detail |-> a.detail]

C26_State ==
    /\ \A e1 \in EmailInputs, e2 \in EmailInputs :
          \A p1 \in LoginPasswords, p2 \in LoginPasswords :
             LET a == authenticate_user(users, normalize_email(e1), p1)
                 b == authenticate_user(users, normalize_email(e2), p2)
             IN  (~a.ok /\ ~b.ok) => Failure(a) = Failure(b)
    /\ (resp.op = "login" /\ resp.user = NoResp) =>
          /\ resp.status_code = 401
          /\ resp.detail = "Incorrect email or password"

C26_Step ==
    resp'.op = "login" =>
        /\ users' = users /\ reset_tokens' = reset_tokens
        /\ chat_history' = chat_history /\ uploads' = uploads

\* C26: a login that fails is answered 401 'Incorrect email or password',
\* the same for an email no user has and for a wrong password of a user,
\* and a login changes no table and no file.
C26_LoginFailuresIdentical == [](C26_State) /\ [][C26_Step]_vars

C26_Witness ==
    /\ resp.op = "login" /\ resp.status_code = 401
    /\ \E u \in users :
          /\ u.email = normalize_email(resp.email)
          /\ ~verify_password(resp.password, u.hashed_password)
    /\ \E e \in EmailInputs : \A u \in users : u.email # normalize_email(e)

C27_State ==
    (resp.op = "register" /\ resp.email_failed) =>
        /\ resp.status_code = 201
        /\ resp.user \in users
        /\ resp.user.email = resp.request.email
        /\ resp.user.username = resp.request.username

C27_Step ==
    (resp'.op = "forgot" /\ resp'.email_failed /\ issued' # issued) =>
        /\ resp'.status_code = 200
        /\ resp'.message = SentMessage
        /\ \E t \in reset_tokens' \ reset_tokens :
              /\ \E u \in users' : u.id = t.user_id /\ u.email = normalize_email(resp'.email)
              /\ reset_password(reset_tokens', users', t.token, SecondPassword, now').ok

\* C27: a registration whose welcome email could not be sent is answered 201
\* with the created user, who is in the table; a POST /forgot-password whose
\* reset email could not be sent is answered 200 with the message of a sent
\* email, and the token it issued is stored and would be accepted by
\* POST /reset-password.
C27_EmailFailureDoesNotChangeOutcome == [](C27_State) /\ [][C27_Step]_vars

C27_Witness ==
    /\ resp.op = "forgot" /\ resp.email_failed /\ resp.status_code = 200
    /\ \E t \in reset_tokens : \E u \in users :
          /\ u.id = t.user_id /\ u.id > NumUsers + 1
          /\ u.email = normalize_email(resp.email)
          /\ ~t.is_used

C28_State ==
    \A u \in users : \A v \in users :
        u # v => (u.email # v.email /\ u.username # v.username /\ u.id # v.id)

\* A step that answers a registration, in either process.
RegisterStep == resp'.op = "register" /\ (work' = work \/ work.pc = "register")

C28_Step ==
    RegisterStep =>
        LET d == resp'.request
        IN  /\ ( \/ \E u \in users : u.email = d.email
                 \/ \E u \in users : u.username = d.username
                 \/ ~Compliant(d.password) )
               => (resp'.status_code # 201 /\ users' = users)
            /\ users' # users =>
                  /\ resp'.status_code = 201
                  /\ users' = users \cup {resp'.user}
                  /\ resp'.user.email = d.email /\ resp'.user.username = d.username

\* C28: a registration whose email or username a stored user already has,
\* or whose password fails the policy, is refused and adds no user, in
\* whichever process it runs and whatever was registered between its checks
\* and its insert; no two stored users ever share an email, a username or
\* an id.
C28_RegistrationKeepsUsersUnique == [](C28_State) /\ [][C28_Step]_vars

C28_Witness ==
    /\ resp.op = "register" /\ resp.status_code = 500
    /\ \E u \in users :
          u.email = resp.request.email /\ u.username = resp.request.username

C29_State ==
    resp.op = "delete_user" =>
        /\ \A tie \in BOOLEAN :
              get_chat_history(resp.user_id, 0, MAX_LIMIT, tie).chats = <<>>
        /\ \A t \in chat_history : t.user_id # resp.user_id
        /\ \A t \in reset_tokens : t.user_id # resp.user_id
        /\ \A u \in users : u.id # resp.user_id

C29_Step ==
    (resp'.op = "delete_user" /\ users' # users) =>
        /\ {t \in chat_history' : t.user_id # resp'.user_id}
              = {t \in chat_history : t.user_id # resp'.user_id}
        /\ {t \in reset_tokens' : t.user_id # resp'.user_id}
              = {t \in reset_tokens : t.user_id # resp'.user_id}
        /\ {u \in users' : u.id # resp'.user_id} = {u \in users : u.id # resp'.user_id}

\* C29: once a user row is deleted, a listing of that user's history with
\* skip 0 and limit 100 is empty, no chat row, no reset token and no user
\* row refers to the user, and the rows of the other users are as before.
C29_DeleteUserCascades == [](C29_State) /\ [][C29_Step]_vars

C29_Witness ==
    /\ resp.op = "delete_user" /\ resp.chats > 0 /\ resp.tokens > 0
    /\ chat_history # {} /\ reset_tokens # {}

\* C30: a thread of _generate_image_content_sync that has returned or raised
\* holds no open image, whether it returned a text, raised the
\* empty-response error, or raised an error of the provider call; an image
\* is open only while the provider call runs.
C30_ImageClosedOnEveryExit ==
    sync.pc # "off" =>
        \A a \in Attempts :
            /\ sync.thread[a].pc \in {"returned", "raised"} => sync.thread[a].image # "open"
            /\ sync.thread[a].image = "open" => sync.thread[a].pc = "calling"

C30_Witness ==
    /\ sync.pc = "returned"
    /\ \E a \in Attempts : \E b \in Attempts :
          /\ sync.thread[a] = Thread("raised", "closed", "net_error")
          /\ sync.thread[b] = Thread("returned", "closed", "ok")

\* C31: a call of convert_voice_to_text calls the provider at most once, and
\* never again after it ended; a transcript that is empty after strip ends
\* the call with a 400, a provider error, an exception or a missing library
\* with a 500, the timeout with a 504, and only a non-empty transcript is
\* returned, stripped.
C31_SingleAttemptAndDistinctErrors ==
    \A r \in Reqs :
        LET c == sync[r]
        IN  /\ c.made <= 1
            /\ c.thread = "done" <=> c.made = 1
            /\ c.pc \in {"returned", "raised"} =>
                  /\ c.seen = "timeout" => c.pc = "raised" /\ c.status_code = 504
                  /\ c.seen \in {"error", "other_error", "unavailable"} =>
                        c.pc = "raised" /\ c.status_code = 500
                  /\ c.seen = "ok" /\ c.raw.core = 0 => c.pc = "raised" /\ c.status_code = 400
                  /\ c.seen = "ok" /\ c.raw.core > 0 =>
                        /\ c.pc = "returned"
                        /\ c.text = Text(0, c.raw.core, 0)
                  /\ c.status_code = 400 => c.seen = "ok" /\ c.made = 1

\* One call ended with the 400 of an empty transcript, another timed out and
\* its worker called the provider afterwards.
C31_Witness ==
    \E r, o \in Reqs :
        /\ sync[r].pc = "raised" /\ sync[r].status_code = 400 /\ sync[r].made = 1
        /\ sync[o].pc = "raised" /\ sync[o].status_code = 504 /\ sync[o].made = 1

\* C32: every row of chat_history has an image_url exactly when its type is
\* image, a voice_url exactly when its type is voice, and a
\* response_audio_url only when its type is voice.
C32_MediaReferencesMatchKind ==
    \A t \in chat_history :
        /\ t.message_type \in {"text", "image", "voice"}
        /\ t.image_url # NoFile <=> t.message_type = "image"
        /\ t.voice_url # NoFile <=> t.message_type = "voice"
        /\ t.response_audio_url # NoFile => t.message_type = "voice"

\* The observed request stored a voice turn whose synthesis failed: a voice
\* reference and no response audio.
C32_Witness ==
    \E t \in chat_history :
        /\ t.id[1] = Seen
        /\ t.message_type = "voice"
        /\ t.voice_url = VoicePath(Seen)
        /\ t.response_audio_url = NoFile

\* A step removed row t from the table as a deletion does: DELETE
\* /history/{id} of that row by its owner, DELETE /history by its owner, or
\* the removal of its owner's user row.
RemovedByOwner(t) ==
    /\ req' = req
    /\ \/ /\ resp'.op = "delete"
          /\ resp'.status_code = 200
          /\ resp'.user_id = t.user_id
          /\ resp'.chat_id = t.id
       \/ /\ resp'.op = "delete_all"
          /\ resp'.status_code = 200
          /\ resp'.user_id = t.user_id
       \/ /\ resp'.op = "delete_user"
          /\ resp'.user_id = t.user_id
          /\ users' # users

C33_Step ==
    \A t \in chat_history :
        \/ t \in chat_history'
        \/ /\ ~(\E u \in chat_history' : u.id = t.id)
           /\ RemovedByOwner(t)

\* C33: no step changes a column of a stored row; a row leaves the table
\* only by a successful deletion of it or of all rows by its owner, or with
\* its owner's user row.
C33_StoredTurnsNeverChange == [][C33_Step]_vars

\* The observed request's row is stored next to a seeded row of its owner,
\* another seeded row of that owner having been deleted by a single delete.
C33_Witness ==
    /\ resp.op = "delete"
    /\ resp.status_code = 200
    /\ resp.user_id = current_user(Seen)
    /\ \E t \in chat_history : t.id[1] = Seen
    /\ \E t \in Few : t.user_id = current_user(Seen) /\ t \in chat_history
    /\ \E t \in Few : t.user_id = current_user(Seen) /\ t \notin chat_history

\* The account routes leave chat_history alone; only the removal of a user
\* row takes that user's rows along.
C33_AccountStep ==
    \/ chat_history' = chat_history
    \/ /\ resp'.op = "delete_user"
       /\ users' # users
       /\ chat_history' = {t \in chat_history : t.user_id # resp'.user_id}

C33_AccountRoutesLeaveTurns == [][C33_AccountStep]_vars

\* The number of rows of user_id from position skip on.
RowsFrom(user_id, skip) ==
    LET n == total_chats(chat_history, user_id)
    IN  IF n > skip THEN n - skip ELSE 0

\* C34: a page of GET /history never has more than MAX_LIMIT rows nor more
\* than the limit asked for; with a limit above MAX_LIMIT it has the
\* MAX_LIMIT rows a limit of MAX_LIMIT gives (or all that are left); its rows
\* are the caller's, newest first.
C34_PageAtMostMaxLimitNewestFirst ==
    resp.op = "list" =>
        /\ Len(resp.chats) <= MAX_LIMIT
        /\ Len(resp.chats) <= resp.limit
        /\ resp.limit >= MAX_LIMIT =>
              Len(resp.chats) = IF RowsFrom(resp.user_id, resp.skip) < MAX_LIMIT
                                THEN RowsFrom(resp.user_id, resp.skip) ELSE MAX_LIMIT
        /\ \A i \in 1..Len(resp.chats) :
              /\ resp.chats[i] \in chat_history
              /\ resp.chats[i].user_id = resp.user_id
              /\ \A j \in 1..Len(resp.chats) :
                    i < j => resp.chats[i].created_at >= resp.chats[j].created_at

\* A caller with more than MAX_LIMIT rows asked for more than MAX_LIMIT and
\* got MAX_LIMIT.
C34_Witness ==
    /\ resp.op = "list"
    /\ resp.limit > MAX_LIMIT
    /\ resp.skip = 0
    /\ total_chats(chat_history, resp.user_id) > MAX_LIMIT
    /\ Len(resp.chats) = MAX_LIMIT

\* C35: the k-th backoff sleep of a generate call lasts RETRY_DELAY * k,
\* after a timeout as after a network error; there are at most MAX_RETRIES
\* sleeps, one after every failed attempt that is followed by another, and
\* none after the attempt the call ends on.
C35_LinearBackoffNoSleepAfterLast ==
    /\ Len(call.slept) <= MAX_RETRIES
    /\ \A k \in 1..Len(call.slept) :
          /\ call.slept[k] = RETRY_DELAY * k
          /\ call.outcomes[k] \in {"timeout", "net_error"}
    /\ call.pc = "run" => Len(call.slept) = call.made
    /\ call.pc \in {"returned", "raised", "returned_none"} =>
          Len(call.slept) = call.made - 1

\* A call that slept RETRY_DELAY after a timeout, twice RETRY_DELAY after a
\* network error, and ended on a timeout of its last attempt.
C35_Witness ==
    /\ call.pc = "raised"
    /\ call.made = MAX_RETRIES + 1
    /\ call.slept = <<RETRY_DELAY, 2 * RETRY_DELAY>>
    /\ call.outcomes[1] = "timeout"
    /\ call.outcomes[2] = "net_error"
    /\ call.outcomes[3] = "timeout"

\* What a step does to the stored row t of a reset token: the row stays as
\* it is; or its used flag goes from false to true, by a successful
\* POST /reset-password with that token made no later than its expiry; or
\* the row goes with its user's row.
C36_RowStep(t) ==
    \/ t \in reset_tokens'
    \/ /\ ~t.is_used
       /\ [t EXCEPT !.is_used = TRUE] \in reset_tokens'
       /\ ~(\E n \in reset_tokens' : n.token = t.token /\ ~n.is_used)
       /\ ResetStep
       /\ resp'.status_code = 200
       /\ resp'.token = t.token
       /\ ~(t.expires_at < now)
    \/ /\ ~(\E n \in reset_tokens' : n.token = t.token)
       /\ resp'.op = "delete_user"
       /\ resp'.user_id = t.user_id
       /\ users' # users

C36_Step ==
    /\ \A t \in reset_tokens : C36_RowStep(t)
    /\ \A n \in reset_tokens' :
          ~(\E t \in reset_tokens : t.token = n.token) =>
              /\ ~n.is_used
              /\ resp'.op = "forgot"
              /\ n.expires_at = now + RESET_TOKEN_EXPIRE_MINUTES
    /\ ResetStep /\ resp'.status_code = 200 =>
          /\ Known(resp'.token)
          /\ ~(TokenOf(resp'.token).expires_at < now)
          /\ ~TokenOf(resp'.token).is_used
    /\ ResetStep /\ Known(resp'.token) /\ TokenOf(resp'.token).expires_at < now =>
          resp'.status_code # 200 /\ NothingWritten

\* C36: a token row starts with the used flag false, the flag is set only by
\* a successful reset with that token and is never cleared; the
\* forgot-password and reset-password flows remove no token row; a reset
\* with a token past its expiry is refused, used or not, and writes nothing.
C36_UsedFlagMonotoneNoDeleteNoExpired == [][C36_Step]_vars

\* A consumed token is past its expiry, and the reset just tried with it
\* was refused.
C36_Witness ==
    /\ resp.op = "reset"
    /\ resp.status_code = 400
    /\ \E t \in reset_tokens :
          /\ t.token = resp.token
          /\ t.is_used
          /\ t.expires_at < now
    /\ \E t \in reset_tokens : ~t.is_used /\ t.expires_at < now

\* C37: every file a row of chat_history refers to (image_url, voice_url,
\* response_audio_url) exists under UPLOAD_DIR.
C37_StoredReferencesExist ==
    \A t \in chat_history : FilesOf({t}) \subseteq uploads

\* The second process commits its reset successfully.
C38_CommitStep == work.pc = "reset" /\ work' = NoWork /\ resp'.status_code = 200

C38_Step ==
    C38_CommitStep =>
        /\ ~TokenOf(work.token).is_used
        /\ \E u \in users' :
              /\ u.id = work.user_id
              /\ u.hashed_password = get_password_hash(work.new_password)

\* C38: of two resets with the same unused, unexpired token that run at the
\* same time, the one that commits second does not succeed: a reset only
\* succeeds on a token that is unused when it commits, and the hash it sets
\* is then the stored one.
C38_AtMostOneConcurrentResetSucceeds == [][C38_Step]_vars

\* The rows of user_id that requests of Reqs inserted.
Submitted(user_id) == {t \in chat_history : t.user_id = user_id /\ t.id[1] \in Reqs}

\* The requests of user_id.
RequestsOf(user_id) == {r \in Reqs : current_user(r) = user_id}

C39_State ==
    /\ \A u \in Users :
          (\A r \in RequestsOf(u) : req[r].stage = "success") =>
              /\ Cardinality(Submitted(u)) = Cardinality(RequestsOf(u))
              /\ Cardinality({t.id : t \in Submitted(u)}) = Cardinality(RequestsOf(u))
              /\ \A r \in RequestsOf(u) : \E t \in Submitted(u) : t.id = <<r, 1>>
    /\ \A r \in Reqs :
          req[r].stage = "success" =>
              /\ resp[r].op = "submit"
              /\ resp[r].current_chat \in Submitted(current_user(r))
              /\ resp[r].current_chat.id = <<r, 1>>
              /\ \A i \in 1..Len(resp[r].chat_history) :
                    /\ resp[r].chat_history[i].id # <<r, 1>>
                    /\ resp[r].chat_history[i].user_id = current_user(r)
              /\ resp[r].total_chats >= 1
              /\ resp[r].total_chats <=
                    Cardinality({t \in chat_history : t.user_id = current_user(r)})

\* A readback counts the caller's rows committed at that moment.
C39_Step ==
    \A r \in Reqs :
        req[r].pc = "readback" /\ req'[r].stage = "success" =>
            resp'[r].total_chats =
                Cardinality({t \in chat_history' : t.user_id = current_user(r)})

\* C39: when the submissions of one owner, interleaved in any way, all
\* succeed, each has inserted exactly one row and the rows have different
\* ids; each response has the request's own row as current_chat and not in
\* chat_history, and its total_chats is at least 1 and is the number of the
\* owner's rows committed when it read back.
C39_ConcurrentSubmissionsEachPersistOnce == [](C39_State) /\ [][C39_Step]_vars

\* Two submissions of one owner both committed before either read back: each
\* lists the other's row as recent and both report the same total.
C39_Witness ==
    \E r, o \in Reqs :
        /\ r # o
        /\ current_user(r) = current_user(o)
        /\ req[r].stage = "success" /\ req[o].stage = "success"
        /\ resp[r].total_chats = resp[o].total_chats
        /\ \E i \in 1..Len(resp[r].chat_history) : resp[r].chat_history[i].id = <<o, 1>>
        /\ \E i \in 1..Len(resp[o].chat_history) : resp[o].chat_history[i].id = <<r, 1>>

\* C40: once a voice request whose synthesis failed or timed out has ended,
\* and the worker of its synthesis has ended too, its response audio file
\* does not exist.
C40_NoAudioFileAfterFailedSynthesis ==
    \A r \in Reqs :
        req[r].pc = "done" /\ req[r].tts = "failed" /\ sync[r].thread # "new" =>
            AudioPath(r) \notin uploads

\* The same for the requests whose synthesis timed out.
C40_NoAudioFileAfterTimeout ==
    \A r \in Reqs :
        req[r].pc = "done" /\ sync[r].seen = "timeout" /\ sync[r].thread # "new" =>
            AudioPath(r) \notin uploads

====
